---- MODULE Spec2Model ----
(***************************************************************************)
(* Model of the chunked storage / streaming engine of awsl-video:          *)
(*   - the chunk-list codec      (backend/utils/compression.py)            *)
(*   - the chunk splitter/upload (backend/storage.py)                      *)
(*   - the chunk-record store    (backend/routes/admin.py, user.py)        *)
(*   - the catalog deletions     (backend/routes/admin.py)                 *)
(*   - the range stream handler  (design sections 4.3 and 4.4)             *)
(*   - the user-info retry loop  (backend/oauth_service.py)                *)
(*   - shares, likes, favorites, comments, watch history and their daily   *)
(*     limits (backend/routes/user_profile.py, comments.py,                *)
(*     backend/rate_limiter.py)                                            *)
(* Strings are sequences of one-character strings, bytes are 0..255.       *)
(***************************************************************************)
EXTENDS Integers, Sequences, FiniteSets, TLC

VARIABLES
    cpc,        \* codec: position of the caller ("input", "built", "parsed"; "received", "decoded")
    cchunks,    \* codec: the list of (file_id, size) tuples given to build_chunks_param
    cmode,      \* codec: use_compression argument: "none", "true", "false"
    ctoken,     \* codec: the chunks parameter string
    cparsed,    \* codec: result of parse_chunks_param
    upc,        \* upload: position in upload_file_in_chunks
    ufile,      \* upload: the bytes of the file being read
    usize,      \* upload: the chunk size in force (CHUNK_SIZE)
    upos,       \* upload: read position of the file object
    chunk_index,\* upload: local chunk_index
    chunks_info,\* upload: local chunks_info
    blobs,      \* storage backend: sequence of stored objects, file_id = position
    puts,       \* upload: outcome of every upload_chunk call so far, in call order
    videos,     \* database: ids of the rows of table videos
    episodes,   \* database: ids of the rows of table episodes
    rows,       \* database: committed rows of table video_chunks
    next_id,    \* database: next autoincrement id of video_chunks
    uploaded_len, \* per episode, the length of the file of the last finalize
    wpc,        \* finalize_episode_upload: position of each request handler
    wreq,       \* finalize_episode_upload: episode_id and request.chunks
    wexisting,  \* finalize_episode_upload: existing_chunks
    wres,       \* finalize_episode_upload: response
    rpc,        \* get_episode_stream_url: position of the reader
    repi,       \* get_episode_stream_url: episode_id
    rchunks,    \* get_episode_stream_url: the chunk rows read, in query order
    rres,       \* get_episode_stream_url: response
    dres,       \* delete_episode / delete_video: the last request and its response
    spc,        \* stream: position of the request ("request", "stream", "done")
    schunks,    \* stream: byte_size of the item's ChunkRecords, in sequence_index order
    sgiven,     \* stream: the bounds the client asked for (-1: side left empty)
    sheader,    \* stream: the Range header ([present, value])
    sresp,      \* stream: status, headers and byte bounds of the response
    current_pos,\* stream: running offset of RangeStreamReconstructor
    snext,      \* stream: position in the chunk list of the chunk examined next
    sfetched,   \* stream: positions of the chunks fetched with BlobBackendClient.get
    syielded,   \* stream: the slices yielded, [chunk, lo, hi) of the chunk's bytes
    sheld,      \* stream: positions of the chunks whose fetched bytes are in memory
    opc,        \* get_user_info: position ("request", "sleep", "done")
    attempt,    \* get_user_info: loop variable attempt
    ooutcomes,  \* get_user_info: outcome of every client.get so far, in order
    oslept,     \* get_user_info: seconds spent in asyncio.sleep
    oserver,    \* get_user_info: the user_data the Linux.do API answers with
    ores,       \* get_user_info: the value returned or the exception raised
    qpc,        \* user requests: position of each request handler
    qreq,       \* user requests: endpoint, current_user.id and path/body arguments
    qfound,     \* user requests: the row the handler's select found (NoRow: none)
    qres,       \* user requests: response
    shares,     \* database: rows of table video_shares
    likes,      \* database: rows of table video_likes
    favorites,  \* database: rows of table video_favorites
    comments,   \* database: rows of table comments
    history,    \* database: rows of table watch_history
    sid,        \* database: next autoincrement id of the five tables above
    now         \* the value of datetime.utcnow(), in clock ticks

codecVars == <<cpc, cchunks, cmode, ctoken, cparsed>>
uploadVars == <<upc, ufile, usize, upos, chunk_index, chunks_info, blobs, puts>>
dbVars == <<videos, episodes, rows, next_id, uploaded_len, wpc, wreq, wexisting, wres,
            rpc, repi, rchunks, rres, dres>>

streamVars == <<spc, schunks, sgiven, sheader, sresp, current_pos, snext, sfetched,
                syielded, sheld>>

oauthVars == <<opc, attempt, ooutcomes, oslept, oserver, ores>>
requestVars == <<qpc, qreq, qfound, qres>>
tableVars == <<shares, likes, favorites, comments, history, sid, now>>
socialVars == <<oauthVars, requestVars, tableVars>>

nonCodecVars == <<uploadVars, dbVars, streamVars, socialVars>>
nonUploadVars == <<codecVars, dbVars, streamVars, socialVars>>
nonDbVars == <<codecVars, uploadVars, streamVars, socialVars>>
nonStreamVars == <<codecVars, uploadVars, dbVars, socialVars>>
nonSocialVars == <<codecVars, uploadVars, dbVars, streamVars>>

vars == <<cpc, cchunks, cmode, ctoken, cparsed,
          upc, ufile, usize, upos, chunk_index, chunks_info, blobs, puts,
          videos, episodes, rows, next_id, uploaded_len, wpc, wreq, wexisting, wres,
          rpc, repi, rchunks, rres, dres,
          spc, schunks, sgiven, sheader, sresp, current_pos, snext, sfetched, syielded,
          sheld,
          opc, attempt, ooutcomes, oslept, oserver, ores,
          qpc, qreq, qfound, qres,
          shares, likes, favorites, comments, history, sid, now>>

----------------------------------------------------------------------------
(* Bounds of the codec inputs *)
MaxIdLen == 2
MaxCodecChunks == 2
MaxTokenLen == 5

IdChars == {"a", "7"}
SampleSizes == {1, 10, 305}

----------------------------------------------------------------------------
(* Generic sequence helpers *)

RECURSIVE SeqsUpTo(_, _)
SeqsUpTo(S, n) ==
    IF n = 0 THEN {<<>>}
    ELSE LET shorter == SeqsUpTo(S, n - 1)
         IN  shorter \cup {Append(s, x) : s \in {t \in shorter : Len(t) = n - 1}, x \in S}

RECURSIVE Concat(_)
Concat(ss) == IF ss = <<>> THEN <<>> ELSE Head(ss) \o Concat(Tail(ss))

Contains(s, c) == \E i \in 1..Len(s) : s[i] = c

RECURSIVE SumSeq(_)
SumSeq(s) == IF s = <<>> THEN 0 ELSE Head(s) + SumSeq(Tail(s))

Min(a, b) == IF a < b THEN a ELSE b
Max(a, b) == IF a > b THEN a ELSE b

----------------------------------------------------------------------------
(* Python string primitives used by the codec *)

DigitChars == <<"0", "1", "2", "3", "4", "5", "6", "7", "8", "9">>
IsDigit(c) == \E i \in 1..10 : DigitChars[i] = c
DigitVal(c) == (CHOOSE i \in 1..10 : DigitChars[i] = c) - 1

\* f"{n}" for an int
RECURSIVE NatToStr(_)
NatToStr(n) == IF n < 10 THEN <<DigitChars[n + 1]>>
               ELSE Append(NatToStr(n \div 10), DigitChars[(n % 10) + 1])
IntToStr(n) == IF n < 0 THEN <<"-">> \o NatToStr(0 - n) ELSE NatToStr(n)

\* str.split(sep): always at least one field, empty fields are kept
SepPositions(s, sep) == {i \in 1..Len(s) : s[i] = sep}
SepAt(s, sep, k) ==
    CHOOSE i \in SepPositions(s, sep) :
        Cardinality({j \in SepPositions(s, sep) : j < i}) = k - 1
Split(s, sep) ==
    LET n == Cardinality(SepPositions(s, sep)) + 1
    IN  [k \in 1..n |->
            SubSeq(s, IF k = 1 THEN 1 ELSE SepAt(s, sep, k - 1) + 1,
                      IF k = n THEN Len(s) ELSE SepAt(s, sep, k) - 1)]

\* sep.join(parts)
RECURSIVE Join(_, _)
Join(parts, sep) ==
    IF parts = <<>> THEN <<>>
    ELSE IF Len(parts) = 1 THEN parts[1]
    ELSE parts[1] \o <<sep>> \o Join(Tail(parts), sep)

\* int(s): optional sign, then digits with single underscores between digits
RECURSIVE DigitsOk(_, _)
DigitsOk(s, prevDigit) ==
    IF s = <<>> THEN prevDigit
    ELSE IF IsDigit(Head(s)) THEN DigitsOk(Tail(s), TRUE)
    ELSE IF Head(s) = "_" THEN prevDigit /\ Tail(s) # <<>> /\ IsDigit(Head(Tail(s)))
                               /\ DigitsOk(Tail(s), FALSE)
    ELSE FALSE
RECURSIVE DigitsVal(_, _)
DigitsVal(s, acc) ==
    IF s = <<>> THEN acc
    ELSE IF Head(s) = "_" THEN DigitsVal(Tail(s), acc)
    ELSE DigitsVal(Tail(s), acc * 10 + DigitVal(Head(s)))
RECURSIVE StripSpaces(_)
StripSpaces(s) ==
    IF s # <<>> /\ Head(s) = " " THEN StripSpaces(Tail(s))
    ELSE IF s # <<>> /\ s[Len(s)] = " " THEN StripSpaces(SubSeq(s, 1, Len(s) - 1))
    ELSE s
SignedOk(s) ==
    IF s # <<>> /\ Head(s) \in {"+", "-"} THEN DigitsOk(Tail(s), FALSE)
    ELSE DigitsOk(s, FALSE)
SignedVal(s) ==
    IF Head(s) = "-" THEN 0 - DigitsVal(Tail(s), 0)
    ELSE IF Head(s) = "+" THEN DigitsVal(Tail(s), 0)
    ELSE DigitsVal(s, 0)
IntOk(s) == SignedOk(StripSpaces(s))
IntVal(s) == SignedVal(StripSpaces(s))

----------------------------------------------------------------------------
(* Character codes (ASCII) of the characters the model uses *)

CodeTable ==
    <<  <<"0", 48>>, <<"1", 49>>, <<"2", 50>>, <<"3", 51>>, <<"4", 52>>,
        <<"5", 53>>, <<"6", 54>>, <<"7", 55>>, <<"8", 56>>, <<"9", 57>>,
        <<"a", 97>>, <<"b", 98>>, <<"x", 120>>, <<":", 58>>, <<",", 44>>,
        <<"-", 45>>, <<"_", 95>>, <<"+", 43>>, <<"=", 61>>, <<" ", 32>> >>
KnownChar(c) == \E i \in 1..Len(CodeTable) : CodeTable[i][1] = c
KnownCode(b) == \E i \in 1..Len(CodeTable) : CodeTable[i][2] = b
Ord(c) == CodeTable[CHOOSE i \in 1..Len(CodeTable) : CodeTable[i][1] = c][2]
Chr(b) == CodeTable[CHOOSE i \in 1..Len(CodeTable) : CodeTable[i][2] = b][1]

\* str.encode('utf-8') / bytes.decode('utf-8')
Utf8Encode(s) == [i \in 1..Len(s) |-> Ord(s[i])]
Utf8DecodeOk(bs) == \A i \in 1..Len(bs) : KnownCode(bs[i])
Utf8Decode(bs) == [i \in 1..Len(bs) |-> Chr(bs[i])]

----------------------------------------------------------------------------
(* base64 (RFC 4648) as base64.b64encode / b64decode compute it *)

B64Alphabet ==
    << "A","B","C","D","E","F","G","H","I","J","K","L","M","N","O","P",
       "Q","R","S","T","U","V","W","X","Y","Z","a","b","c","d","e","f",
       "g","h","i","j","k","l","m","n","o","p","q","r","s","t","u","v",
       "w","x","y","z","0","1","2","3","4","5","6","7","8","9","+","/" >>
IsB64Char(c) == \E i \in 1..64 : B64Alphabet[i] = c
B64Index(c) == (CHOOSE i \in 1..64 : B64Alphabet[i] = c) - 1
B64Char(v) == B64Alphabet[v + 1]

\* groups of three bytes become four characters; a short last group is padded
B64Encode(bs) ==
    LET n == Len(bs)
        byte(k) == IF k <= n THEN bs[k] ELSE 0
    IN  [i \in 1..(4 * ((n + 2) \div 3)) |->
            LET g == (i - 1) \div 4
                j == (i - 1) % 4
                b1 == byte(3 * g + 1)
                b2 == byte(3 * g + 2)
                b3 == byte(3 * g + 3)
            IN  IF j = 0 THEN B64Char(b1 \div 4)
                ELSE IF j = 1 THEN B64Char((b1 % 4) * 16 + b2 \div 16)
                ELSE IF j = 2 THEN (IF 3 * g + 2 > n THEN "="
                                    ELSE B64Char((b2 % 16) * 4 + b3 \div 64))
                ELSE (IF 3 * g + 3 > n THEN "=" ELSE B64Char(b3 % 64))]

\* the data characters of a padded string: b64decode (validate=False) discards
\* characters outside the alphabet and stops at the padding
B64Data(s) ==
    LET pads == {i \in 1..Len(s) : s[i] = "="}
        stop == IF pads = {} THEN Len(s) + 1 ELSE CHOOSE i \in pads : \A j \in pads : i <= j
        data == SelectSeq(SubSeq(s, 1, stop - 1), IsB64Char)
    IN  [i \in 1..Len(data) |-> B64Index(data[i])]
B64Pads(s) == Cardinality({i \in 1..Len(s) : s[i] = "="})

\* groups of four data characters become three bytes; a last group of two or
\* three characters gives one or two bytes
B64Bytes(v) ==
    LET n == Len(v)
        val(k) == IF k <= n THEN v[k] ELSE 0
        extra == IF n % 4 = 2 THEN 1 ELSE IF n % 4 = 3 THEN 2 ELSE 0
    IN  [i \in 1..(3 * (n \div 4) + extra) |->
            LET g == (i - 1) \div 3
                j == (i - 1) % 3
            IN  IF j = 0 THEN val(4 * g + 1) * 4 + val(4 * g + 2) \div 16
                ELSE IF j = 1 THEN (val(4 * g + 2) % 16) * 16 + val(4 * g + 3) \div 4
                ELSE (val(4 * g + 3) % 4) * 64 + val(4 * g + 4)]

\* binascii.Error "Incorrect padding" / "number of data characters cannot be 1
\* more than a multiple of 4"
B64DecodeOk(s) ==
    LET n == Len(B64Data(s))
    IN  /\ n % 4 # 1
        /\ (n % 4 = 0 \/ B64Pads(s) >= 4 - (n % 4))
B64Decode(s) == B64Bytes(B64Data(s))

----------------------------------------------------------------------------
(* raw deflate (zlib with negative wbits), modelled at the level of the    *)
(* stream format by a single stored block: BFINAL=1 BTYPE=00, LEN, NLEN,   *)
(* then the bytes                                                           *)

Deflate(bs) ==
    << 1, Len(bs) % 256, Len(bs) \div 256,
       255 - (Len(bs) % 256), 255 - (Len(bs) \div 256) >> \o bs

InflateOk(z) ==
    /\ Len(z) >= 5
    /\ z[1] = 1
    /\ z[2] + z[4] = 255
    /\ z[3] + z[5] = 255
    /\ Len(z) - 5 >= z[2] + 256 * z[3]
Inflate(z) == SubSeq(z, 6, 5 + z[2] + 256 * z[3])

----------------------------------------------------------------------------
(* backend/utils/compression.py *)

Replace(s, from, to) == [i \in 1..Len(s) |-> IF s[i] = from THEN to ELSE s[i]]

RECURSIVE RStrip(_, _)
RStrip(s, c) ==
    IF s # <<>> /\ s[Len(s)] = c THEN RStrip(SubSeq(s, 1, Len(s) - 1), c) ELSE s

Repeat(c, n) == [i \in 1..n |-> c]

CompressKeepsPadding(chunks_data) ==
    LET compressed == Deflate(Utf8Encode(chunks_data))
        base64_str == B64Encode(compressed)
    IN  Replace(Replace(base64_str, "+", "-"), "/", "_")
compress_chunks(chunks_data) ==
    LET compressed == Deflate(Utf8Encode(chunks_data))
        base64_str == B64Encode(compressed)
    IN  RStrip(Replace(Replace(base64_str, "+", "-"), "/", "_"), "=")

Base64Unpadded(base64url_data) ==
    Replace(Replace(base64url_data, "-", "+"), "_", "/")
Base64Padded(base64url_data) ==
    LET base64_str == Replace(Replace(base64url_data, "-", "+"), "_", "/")
    IN  base64_str \o Repeat("=", (4 - (Len(base64_str) % 4)) % 4)

decompress_ok(base64url_data) ==
    LET padded == Base64Padded(base64url_data)
    IN  /\ B64DecodeOk(padded)
        /\ InflateOk(B64Decode(padded))
        /\ Utf8DecodeOk(Inflate(B64Decode(padded)))

decompress_chunks(base64url_data) ==
    Utf8Decode(Inflate(B64Decode(Base64Padded(base64url_data))))

PlainFormat(chunks) ==
    Join([i \in 1..Len(chunks) |-> chunks[i][1] \o <<":">> \o IntToStr(chunks[i][2])], ",")

AutoCompressionAtFive(chunks, plain) == Len(chunks) >= 5 \/ Len(plain) > 200
AutoCompression(chunks, plain) == Len(chunks) > 5 \/ Len(plain) > 200

build_chunks_param(chunks, use_compression) ==
    LET plain == PlainFormat(chunks)
        use == IF use_compression = "none" THEN AutoCompression(chunks, plain)
               ELSE use_compression = "true"
    IN  IF use THEN compress_chunks(plain) ELSE plain

Ok(v) == [ok |-> TRUE, val |-> v, err |-> <<>>]
Err(seg) == [ok |-> FALSE, val |-> <<>>, err |-> seg]

\* the loop over data.split(','): result so far is acc
RECURSIVE ParseSegments(_, _)
ParseSegments(segs, acc) ==
    IF segs = <<>> THEN Ok(acc)
    ELSE LET chunk_str == Head(segs)
             parts == Split(chunk_str, ":")
         IN  IF chunk_str = <<>> THEN ParseSegments(Tail(segs), acc)
             ELSE IF Len(parts) # 2 THEN Err(chunk_str)
             ELSE IF ~IntOk(parts[2]) THEN Err(parts[2])
             ELSE ParseSegments(Tail(segs), Append(acc, <<parts[1], IntVal(parts[2])>>))

parse_chunks_param(chunks_param) ==
    IF ~Contains(chunks_param, ":")
    THEN IF decompress_ok(chunks_param)
         THEN ParseSegments(Split(decompress_chunks(chunks_param), ","), <<>>)
         ELSE Err(chunks_param)
    ELSE ParseSegments(Split(chunks_param, ","), <<>>)

----------------------------------------------------------------------------
(* Codec specification: a caller builds a parameter and parses it back *)

CodecIds == SeqsUpTo(IdChars, MaxIdLen)
CodecPairs == {<<id, size>> : id \in CodecIds, size \in SampleSizes}
CodecInputs == SeqsUpTo(CodecPairs, MaxCodecChunks) \ {<<>>}

\* lists around the thresholds of the automatic choice: 3, 5, 6 and 10 chunks
\* with short ids, and one chunk whose plain string has 200 and 201 characters
ShortId(k) == <<"a", DigitChars[(k % 10) + 1]>>
AutoSamples ==
    { [k \in 1..n |-> <<ShortId(k), 10>>] : n \in {3, 5, 6, 10} }
        \cup { << <<Repeat("a", n), 1>> >> : n \in {198, 199} }

\* chunks parameters as they arrive in a URL: any short string, and the
\* compressed form of any short string
TokenChars == {"a", "1", ":", ","}
PlainTokens == SeqsUpTo(TokenChars, MaxTokenLen)
ReceivedTokens == PlainTokens \cup {compress_chunks(t) : t \in PlainTokens}

CodecIdle ==
    /\ cpc = "idle" /\ cchunks = <<>> /\ cmode = "none"
    /\ ctoken = <<>> /\ cparsed = Ok(<<>>)

CodecStart ==
    /\ \/ /\ cpc = "input"
          /\ cchunks \in CodecInputs \cup AutoSamples
          /\ cmode \in {"none", "true", "false"}
          /\ ctoken = <<>>
       \/ /\ cpc = "received"
          /\ cchunks = <<>>
          /\ cmode = "none"
          /\ ctoken \in ReceivedTokens
    /\ cparsed = Ok(<<>>)

Build ==
    /\ cpc = "input"
    /\ ctoken' = build_chunks_param(cchunks, cmode)
    /\ cpc' = "built"
    /\ UNCHANGED <<cchunks, cmode, cparsed>>
    /\ UNCHANGED nonCodecVars

Parse ==
    /\ cpc \in {"built", "received"}
    /\ cparsed' = parse_chunks_param(ctoken)
    /\ cpc' = IF cpc = "built" THEN "parsed" ELSE "decoded"
    /\ UNCHANGED <<cchunks, cmode, ctoken>>
    /\ UNCHANGED nonCodecVars

CodecNext == Build \/ Parse


----------------------------------------------------------------------------
(* backend/storage.py: TelegramStorage.upload_file_in_chunks *)

CHUNK_SIZE == 10485760

(* Bounds of the upload inputs *)
MaxFileLen == 25
MaxChunkSize == 10

Filename == <<"v">>

\* BinaryIO.read(n) at position pos: up to n bytes, fewer only at end of file
FileReadDropShort(file, pos, n) ==
    IF Len(file) - pos < n THEN <<>> ELSE SubSeq(file, pos + 1, pos + n)
FileRead(file, pos, n) == SubSeq(file, pos + 1, Min(pos + n, Len(file)))

\* f"{filename}.part{chunk_index}"
ChunkFilenameOneBased(filename, index) ==
    filename \o <<".", "p", "a", "r", "t">> \o IntToStr(index + 1)
ChunkFilename(filename, index) == filename \o <<".", "p", "a", "r", "t">> \o IntToStr(index)

\* the bytes of a test file of length n: byte i is i mod 256
FileOfLen(n) == [i \in 1..n |-> (i - 1) % 256]

UploadIdle ==
    /\ upc = "idle" /\ ufile = <<>> /\ usize = CHUNK_SIZE /\ upos = 0
    /\ chunk_index = 0 /\ chunks_info = <<>> /\ blobs = <<>> /\ puts = <<>>

UploadStart ==
    /\ upc = "loop"
    /\ ufile \in {FileOfLen(n) : n \in 0..MaxFileLen}
    /\ usize \in (1..MaxChunkSize) \cup {CHUNK_SIZE}
    /\ upos = 0
    /\ chunk_index = 0
    /\ chunks_info = <<>>
    /\ blobs = <<>>
    /\ puts = <<>>

\* one loop iteration whose upload_chunk succeeds
UploadChunkOkUploadsEmpty ==
    /\ upc = "loop"
    /\ LET chunk_data == FileRead(ufile, upos, usize)
           chunk_filename == ChunkFilename(Filename, chunk_index)
           file_id == Len(blobs) + 1
       IN  /\ chunk_data # <<>> \/ chunk_index = 0
           /\ upos' = upos + Len(chunk_data)
           /\ blobs' = Append(blobs, [name |-> chunk_filename, data |-> chunk_data])
           /\ chunks_info' = Append(chunks_info,
                  [chunk_index |-> chunk_index, file_id |-> file_id,
                   chunk_size |-> Len(chunk_data)])
           /\ chunk_index' = chunk_index + 1
    /\ puts' = Append(puts, "ok")
    /\ UNCHANGED <<upc, ufile, usize>>
    /\ UNCHANGED nonUploadVars
UploadChunkOk ==
    /\ upc = "loop"
    /\ LET chunk_data == FileRead(ufile, upos, usize)
           chunk_filename == ChunkFilename(Filename, chunk_index)
           file_id == Len(blobs) + 1
       IN  /\ chunk_data # <<>>
           /\ upos' = upos + Len(chunk_data)
           /\ blobs' = Append(blobs, [name |-> chunk_filename, data |-> chunk_data])
           /\ chunks_info' = Append(chunks_info,
                  [chunk_index |-> chunk_index, file_id |-> file_id,
                   chunk_size |-> Len(chunk_data)])
           /\ chunk_index' = chunk_index + 1
    /\ puts' = Append(puts, "ok")
    /\ UNCHANGED <<upc, ufile, usize>>
    /\ UNCHANGED nonUploadVars

\* one loop iteration whose upload_chunk raises: the exception leaves the loop
UploadChunkFailSkips ==
    /\ upc = "loop"
    /\ LET chunk_data == FileRead(ufile, upos, usize)
       IN  /\ chunk_data # <<>>
           /\ upos' = upos + Len(chunk_data)
    /\ puts' = Append(puts, "fail")
    /\ chunk_index' = chunk_index + 1
    /\ UNCHANGED <<upc, ufile, usize, chunks_info, blobs>>
    /\ UNCHANGED nonUploadVars
UploadChunkFail ==
    /\ upc = "loop"
    /\ LET chunk_data == FileRead(ufile, upos, usize)
       IN  /\ chunk_data # <<>>
           /\ upos' = upos + Len(chunk_data)
    /\ puts' = Append(puts, "fail")
    /\ upc' = "raised"
    /\ UNCHANGED <<ufile, usize, chunk_index, chunks_info, blobs>>
    /\ UNCHANGED nonUploadVars

\* file.read returns b"": break and return chunks_info
UploadReturn ==
    /\ upc = "loop"
    /\ FileRead(ufile, upos, usize) = <<>>
    /\ upc' = "returned"
    /\ UNCHANGED <<ufile, usize, upos, chunk_index, chunks_info, blobs, puts>>
    /\ UNCHANGED nonUploadVars

UploadNext == UploadChunkOk \/ UploadChunkFail \/ UploadReturn


----------------------------------------------------------------------------
(* The chunk-record store: table video_chunks (backend/models.py),          *)
(* finalize_episode_upload (backend/routes/admin.py) and                    *)
(* get_episode_stream_url (backend/routes/user.py).  Every request handler  *)
(* has its own session; a statement sees the rows committed so far.  Each   *)
(* writer handles one finalize request and the reader one stream-url        *)
(* request, at any time relative to one another.                            *)

(* Bounds of the store inputs *)
MaxChunkIndex == 2
MaxReqChunks == 2

Writers == {"a", "b"}
EpisodeIds == {1, 2}
RequestedEpisodeIds == {1, 2, 3}

\* the episodes of the store belong to video 1
VideoIds == {1}
RequestedVideoIds == {1, 2}
VideoOf(e) == 1

\* a VideoChunk row
VideoChunk(id, episode_id, index, file_id, size) ==
    [id |-> id, episode_id |-> episode_id, chunk_index |-> index,
     file_id |-> file_id, chunk_size |-> size]

\* the k-th object a client uploaded directly to the storage backend, listed
\* with index idx; an absent (None) size field is 0, which "or" treats alike
BlobLen(k) == k + 2
ClientChunk(w, k, idx) ==
    [chunk_index |-> idx,
     file_id |-> <<w, DigitChars[k + 1]>>,
     file_size |-> IF k % 2 = 1 THEN BlobLen(k) ELSE 0,
     chunk_size |-> IF k % 2 = 0 THEN BlobLen(k) ELSE 0]
ClientLen(chunks) == SumSeq([k \in 1..Len(chunks) |-> BlobLen(k)])

\* request.chunks of FinalizeVideoUploadRequest: any list of chunk infos
\* a chunk info that carries neither file_size nor chunk_size
ClientChunkNoSize(w, k, idx) ==
    [chunk_index |-> idx, file_id |-> <<w, DigitChars[k + 1]>>,
     file_size |-> 0, chunk_size |-> 0]
FinalizeRequests(w) ==
    { [k \in 1..Len(ix) |-> ClientChunk(w, k, ix[k])] :
          ix \in SeqsUpTo(0..MaxChunkIndex, MaxReqChunks) }
        \cup { <<ClientChunkNoSize(w, 1, idx)>> : idx \in 0..MaxChunkIndex }

\* a or b or 0
OrElse(a, b) == IF a # 0 THEN a ELSE IF b # 0 THEN b ELSE 0

RowsOf(e) == {r \in rows : r.episode_id = e}

\* the rows db.add()ed by the "Save new chunks" loop
NewRows(episode_id, chunks, first_id) ==
    { VideoChunk(first_id + k - 1, episode_id, chunks[k].chunk_index, chunks[k].file_id,
                 OrElse(chunks[k].file_size, chunks[k].chunk_size)) : k \in 1..Len(chunks) }

NoRequest == [episode_id |-> 0, chunks |-> <<>>]
NoResponse == [status |-> 0, chunks_count |-> 0]
NoDelete == [op |-> "", id |-> 0, status |-> 0]

InitialRows ==
    { VideoChunk(1, 1, 0, <<"x", "0">>, 5), VideoChunk(2, 1, 1, <<"x", "1">>, 2) }

DbIdle ==
    /\ videos = {} /\ episodes = {} /\ rows = {} /\ next_id = 1
    /\ dres = NoDelete
    /\ uploaded_len = <<>>
    /\ wpc = [w \in Writers |-> "off"]
    /\ wreq = [w \in Writers |-> NoRequest]
    /\ wexisting = [w \in Writers |-> {}]
    /\ wres = [w \in Writers |-> NoResponse]
    /\ rpc = "off" /\ repi = 0 /\ rchunks = <<>>
    /\ rres = [status |-> 0, stream_url |-> <<>>, total_size |-> 0, chunk_count |-> 0]

DbStart ==
    /\ videos = VideoIds
    /\ episodes = EpisodeIds
    /\ rows = InitialRows
    /\ dres = NoDelete
    /\ next_id = 3
    /\ uploaded_len = [e \in EpisodeIds |-> IF e = 1 THEN 7 ELSE 0]
    /\ wpc = [w \in Writers |-> "idle"]
    /\ wreq = [w \in Writers |-> NoRequest]
    /\ wexisting = [w \in Writers |-> {}]
    /\ wres = [w \in Writers |-> NoResponse]
    /\ rpc = "idle" /\ repi = 0 /\ rchunks = <<>>
    /\ rres = [status |-> 0, stream_url |-> <<>>, total_size |-> 0, chunk_count |-> 0]

\* the tables as in DbStart, with no request in progress
DbLoaded ==
    /\ videos = VideoIds
    /\ episodes = EpisodeIds
    /\ rows = InitialRows
    /\ dres = NoDelete
    /\ next_id = 3
    /\ uploaded_len = [e \in EpisodeIds |-> IF e = 1 THEN 7 ELSE 0]
    /\ wpc = [w \in Writers |-> "off"]
    /\ wreq = [w \in Writers |-> NoRequest]
    /\ wexisting = [w \in Writers |-> {}]
    /\ wres = [w \in Writers |-> NoResponse]
    /\ rpc = "off" /\ repi = 0 /\ rchunks = <<>>
    /\ rres = [status |-> 0, stream_url |-> <<>>, total_size |-> 0, chunk_count |-> 0]

readerVars == <<rpc, repi, rchunks, rres>>
catalogVars == <<videos, dres>>

\* the request arrives and the episode is looked up: 404 when it does not exist
FinalizeNotFoundProceeds(w) ==
    /\ wpc[w] = "idle"
    /\ \E e \in RequestedEpisodeIds \ episodes, chunks \in FinalizeRequests(w) :
        /\ wreq' = [wreq EXCEPT ![w] = [episode_id |-> e, chunks |-> chunks]]
    /\ wpc' = [wpc EXCEPT ![w] = "select"]
    /\ UNCHANGED <<episodes, rows, next_id, uploaded_len, wexisting, wres>>
    /\ UNCHANGED <<readerVars, catalogVars, nonDbVars>>
FinalizeNotFound(w) ==
    /\ wpc[w] = "idle"
    /\ \E e \in RequestedEpisodeIds \ episodes, chunks \in FinalizeRequests(w) :
        /\ wreq' = [wreq EXCEPT ![w] = [episode_id |-> e, chunks |-> chunks]]
    /\ wres' = [wres EXCEPT ![w] = [status |-> 404, chunks_count |-> 0]]
    /\ wpc' = [wpc EXCEPT ![w] = "done"]
    /\ UNCHANGED <<episodes, rows, next_id, uploaded_len, wexisting>>
    /\ UNCHANGED <<readerVars, catalogVars, nonDbVars>>

FinalizeStart(w) ==
    /\ wpc[w] = "idle"
    /\ \E e \in RequestedEpisodeIds \cap episodes, chunks \in FinalizeRequests(w) :
        /\ wreq' = [wreq EXCEPT ![w] = [episode_id |-> e, chunks |-> chunks]]
    /\ wpc' = [wpc EXCEPT ![w] = "select"]
    /\ UNCHANGED <<episodes, rows, next_id, uploaded_len, wexisting, wres>>
    /\ UNCHANGED <<readerVars, catalogVars, nonDbVars>>

\* existing_chunks = select(VideoChunk).where(episode_id == episode_id)
FinalizeSelectAll(w) ==
    /\ wpc[w] = "select"
    /\ wexisting' = [wexisting EXCEPT ![w] = rows]
    /\ wpc' = [wpc EXCEPT ![w] = "delete"]
    /\ UNCHANGED <<episodes, rows, next_id, uploaded_len, wreq, wres>>
    /\ UNCHANGED <<readerVars, catalogVars, nonDbVars>>
FinalizeSelect(w) ==
    /\ wpc[w] = "select"
    /\ wexisting' = [wexisting EXCEPT ![w] = RowsOf(wreq[w].episode_id)]
    /\ wpc' = [wpc EXCEPT ![w] = "delete"]
    /\ UNCHANGED <<episodes, rows, next_id, uploaded_len, wreq, wres>>
    /\ UNCHANGED <<readerVars, catalogVars, nonDbVars>>

\* db.delete(chunk) for every existing chunk, then the first db.commit()
FinalizeCommitDelete(w) ==
    /\ wpc[w] = "delete"
    /\ rows' = rows \ wexisting[w]
    /\ wpc' = [wpc EXCEPT ![w] = "insert"]
    /\ UNCHANGED <<episodes, next_id, uploaded_len, wreq, wexisting, wres>>
    /\ UNCHANGED <<readerVars, catalogVars, nonDbVars>>

\* db.add(db_chunk) for every chunk_info, then the second db.commit() and the
\* response
FinalizeCommitInsert(w) ==
    /\ wpc[w] = "insert"
    /\ rows' = rows \cup NewRows(wreq[w].episode_id, wreq[w].chunks, next_id)
    /\ next_id' = next_id + Len(wreq[w].chunks)
    /\ uploaded_len' = [uploaded_len EXCEPT ![wreq[w].episode_id] = ClientLen(wreq[w].chunks)]
    /\ wres' = [wres EXCEPT ![w] = [status |-> 200, chunks_count |-> Len(wreq[w].chunks)]]
    /\ wpc' = [wpc EXCEPT ![w] = "done"]
    /\ UNCHANGED <<episodes, wreq, wexisting>>
    /\ UNCHANGED <<readerVars, catalogVars, nonDbVars>>

\* the orders in which ORDER BY chunk_index may return a set of rows: rows
\* with equal chunk_index come in an order the database chooses
RECURSIVE OrderedAnyOrder(_)
OrderedAnyOrder(rs) ==
    IF rs = {} THEN {<<>>}
    ELSE UNION { { <<r>> \o rest : rest \in OrderedAnyOrder(rs \ {r}) } : r \in rs }
RECURSIVE OrderedByChunkIndex(_)
OrderedByChunkIndex(rs) ==
    IF rs = {} THEN {<<>>}
    ELSE UNION { { <<r>> \o rest : rest \in OrderedByChunkIndex(rs \ {r}) } :
                   r \in {r \in rs : \A q \in rs : r.chunk_index <= q.chunk_index} }

StreamUrl(param) == <<"?", "c", "h", "u", "n", "k", "s", "=">> \o param

\* get_episode_stream_url
GetStreamUrl ==
    /\ rpc = "idle"
    /\ \E e \in RequestedEpisodeIds :
        /\ repi' = e
        /\ IF e \notin episodes \/ RowsOf(e) = {}
           THEN /\ rchunks' = <<>>
                /\ rres' = [status |-> 404, stream_url |-> <<>>,
                            total_size |-> 0, chunk_count |-> 0]
           ELSE \E chunks \in OrderedByChunkIndex(RowsOf(e)) :
                LET chunks_info_r == [i \in 1..Len(chunks) |->
                                        <<chunks[i].file_id, chunks[i].chunk_size>>]
                    total_size == SumSeq([i \in 1..Len(chunks) |-> chunks[i].chunk_size])
                IN  /\ rchunks' = chunks
                    /\ rres' = [status |-> 200,
                                stream_url |-> StreamUrl(build_chunks_param(chunks_info_r, "true")),
                                total_size |-> total_size,
                                chunk_count |-> Len(chunks)]
    /\ rpc' = "done"
    /\ UNCHANGED <<episodes, rows, next_id, uploaded_len, wpc, wreq, wexisting, wres>>
    /\ UNCHANGED <<catalogVars, nonDbVars>>

writerVars == <<wpc, wreq, wexisting, wres>>

\* delete_episode: the episode row is deleted and committed; 404 when absent
DeleteEpisode(e) ==
    /\ IF e \in episodes
       THEN /\ episodes' = episodes \ {e}
            /\ dres' = [op |-> "delete_episode", id |-> e, status |-> 200]
       ELSE /\ dres' = [op |-> "delete_episode", id |-> e, status |-> 404]
            /\ UNCHANGED episodes
    /\ UNCHANGED <<videos, rows, next_id, uploaded_len, writerVars, readerVars, nonDbVars>>

\* delete_video: the video row is deleted and committed; 404 when absent
DeleteVideo(v) ==
    /\ IF v \in videos
       THEN /\ videos' = videos \ {v}
            /\ dres' = [op |-> "delete_video", id |-> v, status |-> 200]
       ELSE /\ dres' = [op |-> "delete_video", id |-> v, status |-> 404]
            /\ UNCHANGED videos
    /\ UNCHANGED <<episodes, rows, next_id, uploaded_len, writerVars, readerVars, nonDbVars>>

\* the admin and user requests on the catalog, with one client finalizing
CatalogNext ==
    \/ \E e \in RequestedEpisodeIds : DeleteEpisode(e)
    \/ \E v \in RequestedVideoIds : DeleteVideo(v)
    \/ FinalizeNotFound("a")
    \/ FinalizeStart("a")
    \/ FinalizeSelect("a")
    \/ FinalizeCommitDelete("a")
    \/ FinalizeCommitInsert("a")
    \/ GetStreamUrl

DbNext ==
    \/ \E w \in Writers : FinalizeNotFound(w)
    \/ \E w \in Writers : FinalizeStart(w)
    \/ \E w \in Writers : FinalizeSelect(w)
    \/ \E w \in Writers : FinalizeCommitDelete(w)
    \/ \E w \in Writers : FinalizeCommitInsert(w)
    \/ GetStreamUrl


----------------------------------------------------------------------------
(* StreamRequestHandler and RangeStreamReconstructor, from the design       *)
(* (sections 4.3 and 4.4): the handler computes the byte bounds and the     *)
(* response headers, the reconstructor walks the chunk list.                *)

(* Bounds of the stream inputs *)
MaxStreamChunks == 3
MaxStreamChunkSize == 3
MaxRangePos == 9

MiB == 1024 * 1024

\* the three-chunk file of the scenarios: 10 MiB, 10 MiB, 5 MiB
ScenarioChunks == <<10 * MiB, 10 * MiB, 5 * MiB>>
ScenarioGiven == [start |-> 15 * MiB, end |-> 20 * MiB - 1]

Str(s) == [i \in 1..Len(s) |-> s[i]]
BytesEq == <<"b", "y", "t", "e", "s", "=">>

\* the header a client sends for the bounds it wants: "bytes=<start>-<end>"
RangeHeaderFor(given) ==
    BytesEq \o (IF given.start < 0 THEN <<>> ELSE IntToStr(given.start))
            \o <<"-">>
            \o (IF given.end < 0 THEN <<>> ELSE IntToStr(given.end))

MalformedHeaders ==
    { BytesEq \o <<"g", "a", "r", "b", "a", "g", "e">>,
      <<"i", "t", "e", "m", "s", "=", "0", "-", "1">>,
      BytesEq \o <<"1">> }

AllDigits(s) == \A i \in 1..Len(s) : IsDigit(s[i])

\* "bytes=<start>-<end>", either side optionally empty
RangeWellFormed(value) ==
    /\ Len(value) >= Len(BytesEq)
    /\ SubSeq(value, 1, Len(BytesEq)) = BytesEq
    /\ LET sides == Split(SubSeq(value, Len(BytesEq) + 1, Len(value)), "-")
       IN  Len(sides) = 2 /\ AllDigits(sides[1]) /\ AllDigits(sides[2])

RangeSides(value) == Split(SubSeq(value, Len(BytesEq) + 1, Len(value)), "-")

\* missing start defaults to 0
RangeStart(value) ==
    IF RangeSides(value)[1] = <<>> THEN 0 ELSE DigitsVal(RangeSides(value)[1], 0)

\* missing end defaults to total_size - 1
RangeEndTotal(value, total_size) ==
    IF RangeSides(value)[2] = <<>> THEN total_size
    ELSE DigitsVal(RangeSides(value)[2], 0)
RangeEnd(value, total_size) ==
    IF RangeSides(value)[2] = <<>> THEN total_size - 1
    ELSE DigitsVal(RangeSides(value)[2], 0)

\* "bytes <start>-<end>/<total_size>"
ContentRangeExclusiveEnd(start, end, total_size) ==
    <<"b", "y", "t", "e", "s", " ">> \o IntToStr(start) \o <<"-">> \o IntToStr(end + 1)
        \o <<"/">> \o IntToStr(total_size)
ContentRange(start, end, total_size) ==
    <<"b", "y", "t", "e", "s", " ">> \o IntToStr(start) \o <<"-">> \o IntToStr(end)
        \o <<"/">> \o IntToStr(total_size)

\* the response of StreamRequestHandler: a malformed header counts as absent
StreamResponseAlwaysPartial(header, total_size) ==
    [status |-> 206, start |-> 0, end |-> total_size - 1,
     content_range |-> ContentRange(0, total_size - 1, total_size),
     content_length |-> total_size,
     accept_ranges |-> "bytes"]
StreamResponseRejectsMalformed(header, total_size) ==
    IF header.present /\ ~RangeWellFormed(header.value)
    THEN [status |-> 416, start |-> 0, end |-> -1,
          content_range |-> <<"b", "y", "t", "e", "s", " ", "*", "/">> \o IntToStr(total_size),
          content_length |-> 0,
          accept_ranges |-> "bytes"]
    ELSE IF header.present
    THEN LET start == RangeStart(header.value)
             end == RangeEnd(header.value, total_size)
         IN  [status |-> 206, start |-> start, end |-> end,
              content_range |-> ContentRange(start, end, total_size),
              content_length |-> end - start + 1,
              accept_ranges |-> "bytes"]
    ELSE [status |-> 200, start |-> 0, end |-> total_size - 1,
          content_range |-> <<>>,
          content_length |-> total_size,
          accept_ranges |-> "bytes"]
StreamResponse(header, total_size) ==
    IF header.present /\ RangeWellFormed(header.value)
    THEN LET start == RangeStart(header.value)
             end == RangeEnd(header.value, total_size)
         IN  [status |-> 206, start |-> start, end |-> end,
              content_range |-> ContentRange(start, end, total_size),
              content_length |-> end - start + 1,
              accept_ranges |-> "bytes"]
    ELSE [status |-> 200, start |-> 0, end |-> total_size - 1,
          content_range |-> <<>>,
          content_length |-> total_size,
          accept_ranges |-> "bytes"]

NoStreamResponse ==
    [status |-> 0, start |-> 0, end |-> 0, content_range |-> <<>>,
     content_length |-> 0, accept_ranges |-> ""]

\* the bytes BlobBackendClient.get returns for the chunk at position k
ChunkBytes(k, byte_size) == [i \in 1..byte_size |-> (16 * k + i) % 256]

\* data[lo:hi]
PySlice(data, lo, hi) == SubSeq(data, lo + 1, Min(hi, Len(data)))

\* a chunk is skipped entirely if chunk_end < range_start
SkipsChunk(chunk_end, range_start) == chunk_end < range_start

\* iteration stops once chunk_start > range_end_inclusive
StopsAtLate(chunk_start, range_end_inclusive) == chunk_start > range_end_inclusive + 1
StopsAt(chunk_start, range_end_inclusive) == chunk_start > range_end_inclusive

\* the sub-slice taken of an overlapping chunk
SliceHiExclusiveEnd(byte_size, range_end_inclusive, chunk_start) ==
    IF byte_size < range_end_inclusive - chunk_start
    THEN byte_size ELSE range_end_inclusive - chunk_start
SliceLo(range_start, chunk_start) == Max(0, range_start - chunk_start)
SliceHi(byte_size, range_end_inclusive, chunk_start) ==
    Min(byte_size, range_end_inclusive - chunk_start + 1)

StreamIdle ==
    /\ spc = "off" /\ schunks = <<>> /\ sgiven = [start |-> -1, end |-> -1]
    /\ sheader = [present |-> FALSE, value |-> <<>>]
    /\ sresp = NoStreamResponse
    /\ current_pos = 0 /\ snext = 1 /\ sfetched = <<>> /\ syielded = <<>>
    /\ sheld = <<>>

StreamGivens ==
    { [start |-> a, end |-> b] : a \in -1..MaxRangePos, b \in -1..MaxRangePos }

StreamStart ==
    /\ spc = "request"
    /\ \/ /\ schunks \in SeqsUpTo(1..MaxStreamChunkSize, MaxStreamChunks)
          /\ \/ /\ sgiven \in StreamGivens
                /\ sheader = [present |-> TRUE, value |-> RangeHeaderFor(sgiven)]
             \/ /\ sgiven = [start |-> -1, end |-> -1]
                /\ \/ sheader = [present |-> FALSE, value |-> <<>>]
                   \/ \E m \in MalformedHeaders : sheader = [present |-> TRUE, value |-> m]
       \/ /\ schunks = ScenarioChunks
          /\ \/ /\ sgiven = ScenarioGiven
                /\ sheader = [present |-> TRUE, value |-> RangeHeaderFor(sgiven)]
             \/ /\ sgiven = [start |-> -1, end |-> -1]
                /\ sheader = [present |-> FALSE, value |-> <<>>]
    /\ sresp = NoStreamResponse
    /\ current_pos = 0 /\ snext = 1 /\ sfetched = <<>> /\ syielded = <<>>
    /\ sheld = <<>>

\* StreamRequestHandler: bounds, status and headers
HandleStreamRequest ==
    /\ spc = "request"
    /\ sresp' = StreamResponse(sheader, SumSeq(schunks))
    /\ spc' = "stream"
    /\ UNCHANGED <<schunks, sgiven, sheader, current_pos, snext, sfetched, syielded, sheld>>
    /\ UNCHANGED nonStreamVars

\* chunk_end < range_start: skipped without a fetch
StreamSkip ==
    /\ spc = "stream" /\ snext <= Len(schunks) /\ sheld = <<>>
    /\ SkipsChunk(current_pos + schunks[snext] - 1, sresp.start)
    /\ current_pos' = current_pos + schunks[snext]
    /\ snext' = snext + 1
    /\ UNCHANGED <<spc, schunks, sgiven, sheader, sresp, sfetched, syielded, sheld>>
    /\ UNCHANGED nonStreamVars

\* chunk_start > range_end_inclusive: iteration stops
StreamStop ==
    /\ spc = "stream" /\ snext <= Len(schunks) /\ sheld = <<>>
    /\ ~SkipsChunk(current_pos + schunks[snext] - 1, sresp.start)
    /\ StopsAt(current_pos, sresp.end)
    /\ spc' = "done"
    /\ UNCHANGED <<schunks, sgiven, sheader, sresp, current_pos, snext, sfetched, syielded, sheld>>
    /\ UNCHANGED nonStreamVars

\* an overlapping chunk: its bytes are fetched with BlobBackendClient.get
StreamFetchEager ==
    /\ spc = "stream" /\ snext <= Len(schunks) /\ Len(sheld) <= 1
    /\ ~SkipsChunk(current_pos + schunks[snext] - 1, sresp.start)
    /\ ~StopsAt(current_pos, sresp.end)
    /\ sfetched' = Append(sfetched, snext)
    /\ sheld' = Append(sheld, snext)
    /\ UNCHANGED <<spc, schunks, sgiven, sheader, sresp, current_pos, snext, syielded>>
    /\ UNCHANGED nonStreamVars
StreamFetch ==
    /\ spc = "stream" /\ snext <= Len(schunks) /\ sheld = <<>>
    /\ ~SkipsChunk(current_pos + schunks[snext] - 1, sresp.start)
    /\ ~StopsAt(current_pos, sresp.end)
    /\ sfetched' = Append(sfetched, snext)
    /\ sheld' = <<snext>>
    /\ UNCHANGED <<spc, schunks, sgiven, sheader, sresp, current_pos, snext, syielded>>
    /\ UNCHANGED nonStreamVars

\* the sub-slice of the fetched chunk is yielded and the bytes are released
StreamYield ==
    /\ spc = "stream" /\ sheld # <<>>
    /\ syielded' = Append(syielded,
           [chunk |-> Head(sheld),
            lo |-> SliceLo(sresp.start, current_pos),
            hi |-> SliceHi(schunks[Head(sheld)], sresp.end, current_pos)])
    /\ sheld' = Tail(sheld)
    /\ current_pos' = current_pos + schunks[snext]
    /\ snext' = snext + 1
    /\ UNCHANGED <<spc, schunks, sgiven, sheader, sresp, sfetched>>
    /\ UNCHANGED nonStreamVars

\* the chunk list is exhausted
StreamEnd ==
    /\ spc = "stream" /\ snext > Len(schunks)
    /\ spc' = "done"
    /\ UNCHANGED <<schunks, sgiven, sheader, sresp, current_pos, snext, sfetched, syielded, sheld>>
    /\ UNCHANGED nonStreamVars

StreamNext ==
    HandleStreamRequest \/ StreamSkip \/ StreamStop \/ StreamFetch \/ StreamYield \/ StreamEnd

----------------------------------------------------------------------------
(* The user-info retry loop of LinuxDoOAuthProvider *)

max_retries == 3

None == <<>>
Some(x) == <<x>>

\* what one client.get can end in: a 2xx answer with the user's JSON, a
\* connect error, a timeout, a non-2xx answer (raise_for_status) or a JSON
\* body without "id" (KeyError)
Outcomes == {"ok", "ConnectError", "TimeoutException", "HTTPStatusError", "KeyError"}

ServerUsers ==
    [id : {1, 2}, username : {<<"a">>, <<"b">>}, name : {None, Some(<<"n">>)}]

NoResult == [status |-> 0, error |-> "", info |-> None]

UserInfo(user_data) ==
    [oauth_id |-> NatToStr(user_data.id), username |-> user_data.username,
     name |-> user_data.name, avatar_url |-> None, email |-> None]

OAuthIdle ==
    /\ opc = "off" /\ attempt = 0 /\ ooutcomes = <<>> /\ oslept = 0
    /\ oserver = [id |-> 0, username |-> <<>>, name |-> None]
    /\ ores = NoResult

OAuthStart ==
    /\ opc = "request" /\ attempt = 0 /\ ooutcomes = <<>> /\ oslept = 0
    /\ oserver \in ServerUsers
    /\ ores = NoResult

RetryableAny(o) == o # "ok"

\* except (httpx.ConnectError, httpx.TimeoutException)
Retryable(o) == o \in {"ConnectError", "TimeoutException"}

\* client.get answers 2xx: the user info is returned
OAuthRequestOk ==
    /\ opc = "request" /\ attempt < max_retries
    /\ ooutcomes' = Append(ooutcomes, "ok")
    /\ ores' = [status |-> 200, error |-> "", info |-> Some(UserInfo(oserver))]
    /\ opc' = "done"
    /\ UNCHANGED <<attempt, oslept, oserver>>
    /\ UNCHANGED <<requestVars, tableVars, nonSocialVars>>

\* client.get, raise_for_status or the reading of the JSON raises
OAuthRequestFail(o) ==
    /\ opc = "request" /\ attempt < max_retries
    /\ o \in Outcomes \ {"ok"}
    /\ ooutcomes' = Append(ooutcomes, o)
    /\ IF Retryable(o)
       THEN IF attempt = max_retries - 1
            THEN /\ ores' = [status |-> 503, error |-> "HTTPException", info |-> None]
                 /\ opc' = "done"
            ELSE /\ ores' = ores
                 /\ opc' = "sleep"
       ELSE /\ ores' = [status |-> 0, error |-> o, info |-> None]
            /\ opc' = "done"
    /\ UNCHANGED <<attempt, oslept, oserver>>
    /\ UNCHANGED <<requestVars, tableVars, nonSocialVars>>

\* await asyncio.sleep(1 * (attempt + 1)), then the next iteration
OAuthSleep ==
    /\ opc = "sleep"
    /\ oslept' = oslept + 1 * (attempt + 1)
    /\ attempt' = attempt + 1
    /\ opc' = "request"
    /\ UNCHANGED <<ooutcomes, oserver, ores>>
    /\ UNCHANGED <<requestVars, tableVars, nonSocialVars>>

OAuthNext ==
    \/ OAuthRequestOk
    \/ \E o \in Outcomes : OAuthRequestFail(o)
    \/ OAuthSleep

----------------------------------------------------------------------------
(* Requests of logged-in users: shares, likes, favorites, comments, history *)

Clients == {"p", "q"}
Users == {1, 2}
SocialVideoIds == {1, 2}
RequestedSocialVideoIds == {1, 2, 3}

\* resolution and range of the modelled clock
TicksPerDay == 2
MaxNow == 2

NoRow == [id |-> 0]
NoCall == [endpoint |-> "none", user_id |-> 0, target |-> 0, parent_id |-> 0]
NoReply == [status |-> 0, flag |-> FALSE, total |-> 0]
Reply(status, flag, total) == [status |-> status, flag |-> flag, total |-> total]

\* videos and episodes of the rows that exist before the first request
PreloadVideo(i) == 100 + i
PreloadEpisode(i) == 100 + i

\* the catalog tables with videos vs, and no admin request in progress
CatalogWith(vs) ==
    /\ videos = vs
    /\ episodes = EpisodeIds
    /\ rows = InitialRows
    /\ dres = NoDelete
    /\ next_id = 3
    /\ uploaded_len = [e \in EpisodeIds |-> IF e = 1 THEN 7 ELSE 0]
    /\ wpc = [w \in Writers |-> "off"]
    /\ wreq = [w \in Writers |-> NoRequest]
    /\ wexisting = [w \in Writers |-> {}]
    /\ wres = [w \in Writers |-> NoResponse]
    /\ rpc = "off" /\ repi = 0 /\ rchunks = <<>>
    /\ rres = [status |-> 0, stream_url |-> <<>>, total_size |-> 0, chunk_count |-> 0]

RequestsIdle ==
    /\ qpc = [c \in Clients |-> "off"]
    /\ qreq = [c \in Clients |-> NoCall]
    /\ qfound = [c \in Clients |-> NoRow]
    /\ qres = [c \in Clients |-> NoReply]

RequestsStart ==
    /\ qpc = [c \in Clients |-> "idle"]
    /\ qreq = [c \in Clients |-> NoCall]
    /\ qfound = [c \in Clients |-> NoRow]
    /\ qres = [c \in Clients |-> NoReply]

TablesIdle ==
    /\ shares = {} /\ likes = {} /\ favorites = {} /\ comments = {} /\ history = {}
    /\ sid = 1 /\ now = 0

SocialIdle == OAuthIdle /\ RequestsIdle /\ TablesIdle

\* a row of video_shares, video_likes or video_favorites
VideoRow(id, user_id, video_id, created_at) ==
    [id |-> id, user_id |-> user_id, video_id |-> video_id, created_at |-> created_at]

Comment(id, user_id, video_id, parent_id, created_at) ==
    [id |-> id, user_id |-> user_id, video_id |-> video_id, parent_id |-> parent_id,
     created_at |-> created_at]

WatchHistory(id, user_id, episode_id, video_id, last_watched) ==
    [id |-> id, user_id |-> user_id, episode_id |-> episode_id, video_id |-> video_id,
     last_watched |-> last_watched]

\* select(model).where(user_id == u, video_id == v), scalar_one_or_none
FindRow(table, u, v) ==
    IF \E r \in table : r.user_id = u /\ r.video_id = v
    THEN CHOOSE r \in table : r.user_id = u /\ r.video_id = v
    ELSE NoRow

UniqueNotEnforced(table, u, v) == FALSE

\* UniqueConstraint('user_id', 'video_id'): the INSERT of a second row fails
UniqueViolation(table, u, v) ==
    \E r \in table : r.user_id = u /\ r.video_id = v

\* select(func.count(model.id)).where(model.video_id == video_id)
CountOfVideo(table, v) == Cardinality({r \in table : r.video_id = v})

\* datetime.utcnow() with hour, minute, second and microsecond set to 0
today_start == now - (now % TicksPerDay)

\* TRUE when check_daily_rate_limit returns, FALSE when it raises 429
check_daily_rate_limit(table, user_id, limit) ==
    LET count == Cardinality({r \in table :
                                 r.user_id = user_id /\ r.created_at >= today_start})
    IN  ~(count >= limit)

\* the clock advances
Tick ==
    /\ now < MaxNow
    /\ now' = now + 1
    /\ UNCHANGED <<shares, likes, favorites, comments, history, sid>>
    /\ UNCHANGED <<requestVars, oauthVars, nonSocialVars>>

Call(endpoint, u, target, parent) ==
    [endpoint |-> endpoint, user_id |-> u, target |-> target, parent_id |-> parent]

Finish(c, reply) ==
    /\ qres' = [qres EXCEPT ![c] = reply]
    /\ qpc' = [qpc EXCEPT ![c] = "done"]

Goto(c, pc) ==
    /\ qpc' = [qpc EXCEPT ![c] = pc]
    /\ qres' = qres

(* record_share *)

ShareStart ==
    /\ RequestsStart
    /\ shares = {} /\ likes = {} /\ favorites = {} /\ comments = {} /\ history = {}
    /\ sid = 1 /\ now = 0

\* the request arrives; the video and the user's share row are looked up
RecordShareStart(c, u, v) ==
    /\ qpc[c] = "idle"
    /\ qreq' = [qreq EXCEPT ![c] = Call("share", u, v, 0)]
    /\ IF v \notin videos
       THEN /\ Finish(c, Reply(404, FALSE, 0))
            /\ qfound' = qfound
       ELSE /\ qfound' = [qfound EXCEPT ![c] = FindRow(shares, u, v)]
            /\ Goto(c, IF FindRow(shares, u, v) = NoRow THEN "insert" ELSE "count")
    /\ UNCHANGED <<tableVars, oauthVars, nonSocialVars>>

\* db.add(share); await db.commit()
RecordShareInsert(c) ==
    /\ qpc[c] = "insert" /\ qreq[c].endpoint = "share"
    /\ IF UniqueViolation(shares, qreq[c].user_id, qreq[c].target)
       THEN /\ Finish(c, Reply(500, FALSE, 0))
            /\ UNCHANGED <<shares, sid>>
       ELSE /\ shares' = shares \cup
                           {VideoRow(sid, qreq[c].user_id, qreq[c].target, now)}
            /\ sid' = sid + 1
            /\ Goto(c, "count")
    /\ UNCHANGED <<qreq, qfound, likes, favorites, comments, history, now>>
    /\ UNCHANGED <<oauthVars, nonSocialVars>>

\* the total is counted and returned
RecordShareCount(c) ==
    /\ qpc[c] = "count" /\ qreq[c].endpoint = "share"
    /\ Finish(c, Reply(200, TRUE, CountOfVideo(shares, qreq[c].target)))
    /\ UNCHANGED <<qreq, qfound>>
    /\ UNCHANGED <<tableVars, oauthVars, nonSocialVars>>

\* the client is free for its next request
NextRequest(c) ==
    /\ qpc[c] = "done"
    /\ qpc' = [qpc EXCEPT ![c] = "idle"]
    /\ qreq' = [qreq EXCEPT ![c] = NoCall]
    /\ qfound' = [qfound EXCEPT ![c] = NoRow]
    /\ qres' = [qres EXCEPT ![c] = NoReply]
    /\ UNCHANGED <<tableVars, oauthVars, nonSocialVars>>

ShareNext ==
    \/ \E c \in Clients, u \in Users, v \in RequestedVideoIds : RecordShareStart(c, u, v)
    \/ \E c \in Clients : RecordShareInsert(c)
    \/ \E c \in Clients : RecordShareCount(c)
    \/ \E c \in Clients : NextRequest(c)

(* toggle_like, toggle_favorite, create_comment *)

\* how many likes, favorites and comments user 1 has made today before the
\* first request of the model
PreloadCounts == {0, 99, 100}

PreloadRows(n) == {VideoRow(i, 1, PreloadVideo(i), 0) : i \in 1..n}
PreloadComments(n) == {Comment(i, 1, 1, 0, 0) : i \in 1..n}

ReactStart ==
    /\ RequestsStart
    /\ \E n \in PreloadCounts :
          /\ likes = PreloadRows(n)
          /\ favorites = PreloadRows(n)
          /\ comments = PreloadComments(n)
          /\ sid = n + 1
    /\ shares = {} /\ history = {} /\ now = 0

\* toggle_like: the video and the user's like row are looked up
ToggleLikeStart(c, u, v) ==
    /\ qpc[c] = "idle"
    /\ qreq' = [qreq EXCEPT ![c] = Call("like", u, v, 0)]
    /\ IF v \notin videos
       THEN /\ Finish(c, Reply(404, FALSE, 0))
            /\ qfound' = qfound
       ELSE /\ qfound' = [qfound EXCEPT ![c] = FindRow(likes, u, v)]
            /\ Goto(c, IF FindRow(likes, u, v) = NoRow THEN "check" ELSE "delete")
    /\ UNCHANGED <<tableVars, oauthVars, nonSocialVars>>

ToggleLikeDeleteKeeps(c) ==
    /\ qpc[c] = "delete" /\ qreq[c].endpoint = "like"
    /\ Goto(c, "count")
    /\ UNCHANGED <<qreq, qfound, tableVars>>
    /\ UNCHANGED <<oauthVars, nonSocialVars>>

\* await db.delete(like); await db.commit()
ToggleLikeDelete(c) ==
    /\ qpc[c] = "delete" /\ qreq[c].endpoint = "like"
    /\ likes' = likes \ {qfound[c]}
    /\ Goto(c, "count")
    /\ UNCHANGED <<qreq, qfound, shares, favorites, comments, history, sid, now>>
    /\ UNCHANGED <<oauthVars, nonSocialVars>>

\* await check_daily_rate_limit(db, current_user.id, models.VideoLike, 100, ...)
ToggleLikeCheck(c) ==
    /\ qpc[c] = "check" /\ qreq[c].endpoint = "like"
    /\ IF check_daily_rate_limit(likes, qreq[c].user_id, 100)
       THEN Goto(c, "insert")
       ELSE Finish(c, Reply(429, FALSE, 0))
    /\ UNCHANGED <<qreq, qfound>>
    /\ UNCHANGED <<tableVars, oauthVars, nonSocialVars>>

\* db.add(like); await db.commit()
ToggleLikeInsert(c) ==
    /\ qpc[c] = "insert" /\ qreq[c].endpoint = "like"
    /\ IF UniqueViolation(likes, qreq[c].user_id, qreq[c].target)
       THEN /\ Finish(c, Reply(500, FALSE, 0))
            /\ UNCHANGED <<likes, sid>>
       ELSE /\ likes' = likes \cup {VideoRow(sid, qreq[c].user_id, qreq[c].target, now)}
            /\ sid' = sid + 1
            /\ Goto(c, "count")
    /\ UNCHANGED <<qreq, qfound, shares, favorites, comments, history, now>>
    /\ UNCHANGED <<oauthVars, nonSocialVars>>

\* total_likes is counted; LikeResponse(liked, total_likes)
ToggleLikeCount(c) ==
    /\ qpc[c] = "count" /\ qreq[c].endpoint = "like"
    /\ Finish(c, Reply(200, qfound[c] = NoRow, CountOfVideo(likes, qreq[c].target)))
    /\ UNCHANGED <<qreq, qfound>>
    /\ UNCHANGED <<tableVars, oauthVars, nonSocialVars>>

\* toggle_favorite: the video and the user's favorite row are looked up
ToggleFavoriteStart(c, u, v) ==
    /\ qpc[c] = "idle"
    /\ qreq' = [qreq EXCEPT ![c] = Call("favorite", u, v, 0)]
    /\ IF v \notin videos
       THEN /\ Finish(c, Reply(404, FALSE, 0))
            /\ qfound' = qfound
       ELSE /\ qfound' = [qfound EXCEPT ![c] = FindRow(favorites, u, v)]
            /\ Goto(c, IF FindRow(favorites, u, v) = NoRow THEN "check" ELSE "delete")
    /\ UNCHANGED <<tableVars, oauthVars, nonSocialVars>>

\* await db.delete(favorite); await db.commit(); FavoriteResponse(favorited=False)
ToggleFavoriteDelete(c) ==
    /\ qpc[c] = "delete" /\ qreq[c].endpoint = "favorite"
    /\ favorites' = favorites \ {qfound[c]}
    /\ Finish(c, Reply(200, FALSE, 0))
    /\ UNCHANGED <<qreq, qfound, shares, likes, comments, history, sid, now>>
    /\ UNCHANGED <<oauthVars, nonSocialVars>>

\* await check_daily_rate_limit(db, current_user.id, models.VideoFavorite, 100, ...)
ToggleFavoriteCheck(c) ==
    /\ qpc[c] = "check" /\ qreq[c].endpoint = "favorite"
    /\ IF check_daily_rate_limit(favorites, qreq[c].user_id, 100)
       THEN Goto(c, "insert")
       ELSE Finish(c, Reply(429, FALSE, 0))
    /\ UNCHANGED <<qreq, qfound>>
    /\ UNCHANGED <<tableVars, oauthVars, nonSocialVars>>

\* db.add(favorite); await db.commit(); FavoriteResponse(favorited=True)
ToggleFavoriteInsert(c) ==
    /\ qpc[c] = "insert" /\ qreq[c].endpoint = "favorite"
    /\ IF UniqueViolation(favorites, qreq[c].user_id, qreq[c].target)
       THEN /\ Finish(c, Reply(500, FALSE, 0))
            /\ UNCHANGED <<favorites, sid>>
       ELSE /\ favorites' = favorites \cup
                              {VideoRow(sid, qreq[c].user_id, qreq[c].target, now)}
            /\ sid' = sid + 1
            /\ Finish(c, Reply(200, TRUE, 0))
    /\ UNCHANGED <<qreq, qfound, shares, likes, comments, history, now>>
    /\ UNCHANGED <<oauthVars, nonSocialVars>>

\* create_comment: the daily limit is checked first
CreateCommentStart(c, u, v, parent) ==
    /\ qpc[c] = "idle"
    /\ qreq' = [qreq EXCEPT ![c] = Call("comment", u, v, parent)]
    /\ IF check_daily_rate_limit(comments, u, 100)
       THEN Goto(c, "lookup")
       ELSE Finish(c, Reply(429, FALSE, 0))
    /\ UNCHANGED <<qfound, tableVars, oauthVars, nonSocialVars>>

\* the video, and the parent comment of a reply, are looked up
CreateCommentLookup(c) ==
    /\ qpc[c] = "lookup" /\ qreq[c].endpoint = "comment"
    /\ IF qreq[c].target \notin videos
       THEN Finish(c, Reply(404, FALSE, 0))
       ELSE IF /\ qreq[c].parent_id # 0
               /\ ~\E r \in comments :
                      r.id = qreq[c].parent_id /\ r.video_id = qreq[c].target
            THEN Finish(c, Reply(404, FALSE, 0))
            ELSE Goto(c, "insert")
    /\ UNCHANGED <<qreq, qfound>>
    /\ UNCHANGED <<tableVars, oauthVars, nonSocialVars>>

\* db.add(comment); await db.commit(); await db.refresh(comment)
CreateCommentInsert(c) ==
    /\ qpc[c] = "insert" /\ qreq[c].endpoint = "comment"
    /\ comments' = comments \cup
                     {Comment(sid, qreq[c].user_id, qreq[c].target, qreq[c].parent_id, now)}
    /\ sid' = sid + 1
    /\ Finish(c, Reply(200, TRUE, 0))
    /\ UNCHANGED <<qreq, qfound, shares, likes, favorites, history, now>>
    /\ UNCHANGED <<oauthVars, nonSocialVars>>

ReactNext ==
    \/ \E c \in Clients, u \in Users, v \in RequestedSocialVideoIds : ToggleLikeStart(c, u, v)
    \/ \E c \in Clients : ToggleLikeDelete(c)
    \/ \E c \in Clients : ToggleLikeCheck(c)
    \/ \E c \in Clients : ToggleLikeInsert(c)
    \/ \E c \in Clients : ToggleLikeCount(c)
    \/ \E c \in Clients, u \in Users, v \in RequestedSocialVideoIds :
          ToggleFavoriteStart(c, u, v)
    \/ \E c \in Clients : ToggleFavoriteDelete(c)
    \/ \E c \in Clients : ToggleFavoriteCheck(c)
    \/ \E c \in Clients : ToggleFavoriteInsert(c)
    \/ \E c \in Clients, u \in Users, v \in RequestedSocialVideoIds, parent \in {0, 1} :
          CreateCommentStart(c, u, v, parent)
    \/ \E c \in Clients : CreateCommentLookup(c)
    \/ \E c \in Clients : CreateCommentInsert(c)
    \/ Tick

(* record_watch_history, cleanup_old_watch_history *)

\* the watch history of user 1 before the first request of the model: k rows,
\* row 1 the most recent; with tied, the two oldest rows have one last_watched,
\* as two requests committed within one tick of the clock leave them
HistoryPreloads ==
    {[k |-> 0, tied |-> FALSE], [k |-> 99, tied |-> FALSE],
     [k |-> 100, tied |-> FALSE], [k |-> 100, tied |-> TRUE]}

PreloadHistory(h) ==
    {WatchHistory(i, 1, PreloadEpisode(i), 1,
                  IF h.tied /\ i = h.k THEN 0 - (i - 1) ELSE 0 - i) : i \in 1..h.k}

\* user 2 has watched episode 1
OtherHistory(h) == {WatchHistory(h.k + 1, 2, 1, 1, 0 - 1)}

HistoryStart ==
    /\ RequestsStart
    /\ \E h \in HistoryPreloads :
          /\ history = PreloadHistory(h) \cup OtherHistory(h)
          /\ sid = h.k + 2
    /\ shares = {} /\ likes = {} /\ favorites = {} /\ comments = {} /\ now = 0

\* select(WatchHistory).where(user_id == u, episode_id == e), scalar_one_or_none
FindHistory(table, u, e) ==
    IF \E r \in table : r.user_id = u /\ r.episode_id = e
    THEN CHOOSE r \in table : r.user_id = u /\ r.episode_id = e
    ELSE NoRow

\* UniqueConstraint('user_id', 'episode_id')
HistoryUniqueViolation(table, u, e) ==
    \E r \in table : r.user_id = u /\ r.episode_id = e

CleanupKeepsAll(table, user_id, keep_count) == table

\* the table after cleanup_old_watch_history(db, user_id, keep_count)
cleanup_old_watch_history(table, user_id, keep_count) ==
    LET mine == {r \in table : r.user_id = user_id}
        total_count == Cardinality(mine)
        \* order_by(last_watched.desc()).limit(1).offset(keep_count - 1)
        cutoff_time ==
            CHOOSE t \in {r.last_watched : r \in mine} :
                /\ Cardinality({r \in mine : r.last_watched > t}) <= keep_count - 1
                /\ Cardinality({r \in mine : r.last_watched >= t}) > keep_count - 1
    IN  IF total_count > keep_count
        THEN table \ {r \in mine : r.last_watched < cutoff_time}
        ELSE table

\* the request arrives; episode, video and the user's history row are looked up
RecordWatchHistoryStart(c, u, e) ==
    /\ qpc[c] = "idle"
    /\ qreq' = [qreq EXCEPT ![c] = Call("history", u, e, 0)]
    /\ IF e \notin episodes \/ VideoOf(e) \notin videos
       THEN /\ Finish(c, Reply(404, FALSE, 0))
            /\ qfound' = qfound
       ELSE /\ qfound' = [qfound EXCEPT ![c] = FindHistory(history, u, e)]
            /\ Goto(c, "commit")
    /\ UNCHANGED <<tableVars, oauthVars, nonSocialVars>>

\* if history: pass, else db.add(history); await db.commit(); await db.refresh(history)
RecordWatchHistoryCommit(c) ==
    /\ qpc[c] = "commit" /\ qreq[c].endpoint = "history"
    /\ IF qfound[c] # NoRow
       THEN /\ IF qfound[c] \in history
               THEN Goto(c, "cleanup")
               ELSE Finish(c, Reply(500, FALSE, 0))
            /\ UNCHANGED <<history, sid>>
       ELSE IF HistoryUniqueViolation(history, qreq[c].user_id, qreq[c].target)
            THEN /\ Finish(c, Reply(500, FALSE, 0))
                 /\ UNCHANGED <<history, sid>>
            ELSE /\ history' = history \cup
                                 {WatchHistory(sid, qreq[c].user_id, qreq[c].target,
                                               VideoOf(qreq[c].target), now)}
                 /\ sid' = sid + 1
                 /\ Goto(c, "cleanup")
    /\ UNCHANGED <<qreq, qfound, shares, likes, favorites, comments, now>>
    /\ UNCHANGED <<oauthVars, nonSocialVars>>

\* await cleanup_old_watch_history(db, current_user.id, 100); await db.commit()
RecordWatchHistoryCleanup(c) ==
    /\ qpc[c] = "cleanup" /\ qreq[c].endpoint = "history"
    /\ history' = cleanup_old_watch_history(history, qreq[c].user_id, 100)
    /\ Finish(c, Reply(200, TRUE, 0))
    /\ UNCHANGED <<qreq, qfound, shares, likes, favorites, comments, sid, now>>
    /\ UNCHANGED <<oauthVars, nonSocialVars>>

HistoryNext ==
    \/ \E c \in Clients, u \in Users, e \in RequestedEpisodeIds :
          RecordWatchHistoryStart(c, u, e)
    \/ \E c \in Clients : RecordWatchHistoryCommit(c)
    \/ \E c \in Clients : RecordWatchHistoryCleanup(c)
    \/ Tick

----------------------------------------------------------------------------
(* Specifications *)

InitCodec == CodecStart /\ UploadIdle /\ DbIdle /\ StreamIdle /\ SocialIdle
SpecCodec == InitCodec /\ [][CodecNext]_vars

InitUpload == UploadStart /\ CodecIdle /\ DbLoaded /\ StreamIdle /\ SocialIdle
SpecUpload == InitUpload /\ [][UploadNext]_vars

InitDb == DbStart /\ CodecIdle /\ UploadIdle /\ StreamIdle /\ SocialIdle
SpecDb == InitDb /\ [][DbNext]_vars

InitCatalog == DbStart /\ CodecIdle /\ UploadIdle /\ StreamIdle /\ SocialIdle
SpecCatalog == InitCatalog /\ [][CatalogNext]_vars

InitStream == StreamStart /\ CodecIdle /\ UploadIdle /\ DbIdle /\ SocialIdle
SpecStream == InitStream /\ [][StreamNext]_vars

InitOAuth ==
    OAuthStart /\ RequestsIdle /\ TablesIdle /\ CodecIdle /\ UploadIdle /\ DbIdle /\ StreamIdle
\* the event loop resumes the coroutine, and every request ends within its timeout
SpecOAuth == InitOAuth /\ [][OAuthNext]_vars /\ WF_vars(OAuthNext)

InitShare ==
    ShareStart /\ OAuthIdle /\ CatalogWith(VideoIds) /\ CodecIdle /\ UploadIdle /\ StreamIdle
SpecShare == InitShare /\ [][ShareNext]_vars

InitReact ==
    ReactStart /\ OAuthIdle /\ CatalogWith(SocialVideoIds) /\ CodecIdle /\ UploadIdle /\ StreamIdle
SpecReact == InitReact /\ [][ReactNext]_vars

\* delete_video removes no episode: the video of the episodes may be gone
InitHistory ==
    /\ HistoryStart /\ OAuthIdle /\ CodecIdle /\ UploadIdle /\ StreamIdle
    /\ \E vs \in {VideoIds, {}} : CatalogWith(vs)
SpecHistory == InitHistory /\ [][HistoryNext]_vars

----------------------------------------------------------------------------
\* C1: parse_chunks_param(build_chunks_param(x, mode)) = x for every non-empty
\* list x of (id, size) pairs with size > 0 and id free of ':' and ',', in
\* plain mode and in forced compressed mode.
CodecRoundTrip ==
    (cpc = "parsed" /\ cmode \in {"true", "false"})
        => (cparsed.ok /\ cparsed.val = cchunks)

CodecRoundTripWitness ==
    /\ cpc = "parsed" /\ cmode = "true" /\ Len(cchunks) = 2
    /\ ~Contains(ctoken, ":")
    /\ cparsed.val = cchunks

\* C3: upload_file_in_chunks splits an input of length L with chunk size C into
\* ceil(L/C) chunks (none when L = 0) indexed 0..n-1, all of size C except the
\* last, of size L mod C (C when C divides L), and the payloads concatenated in
\* index order are the input.
CeilDiv(a, b) == (a + b - 1) \div b
StoredPayloads == [k \in 1..Len(chunks_info) |-> blobs[chunks_info[k].file_id].data]
SplitterCoverage ==
    upc = "returned" =>
        LET L == Len(ufile)
            n == Len(chunks_info)
        IN  /\ n = CeilDiv(L, usize)
            /\ \A k \in 1..n :
                /\ chunks_info[k].chunk_index = k - 1
                /\ chunks_info[k].chunk_size =
                       IF k < n THEN usize
                       ELSE IF L % usize = 0 THEN usize ELSE L % usize
                /\ chunks_info[k].chunk_size = Len(StoredPayloads[k])
            /\ Concat(StoredPayloads) = ufile

\* the 25 / 10 case: three chunks of sizes 10, 10, 5 with indexes 0, 1, 2
SplitterCoverageWitness ==
    /\ upc = "returned" /\ Len(ufile) = 25 /\ usize = 10
    /\ [k \in 1..3 |-> chunks_info[k].chunk_size] = <<10, 10, 5>>
    /\ [k \in 1..3 |-> chunks_info[k].chunk_index] = <<0, 1, 2>>
    /\ Len(chunks_info) = 3

----------------------------------------------------------------------------
(* Chunk-record store claims *)

Active(w) == wpc[w] \in {"select", "delete", "insert"}
Replacing(w) == wpc[w] \in {"delete", "insert"}
SoleWriter(w) ==
    \A v \in Writers \ {w} : ~(Active(v) /\ wreq[v].episode_id = wreq[w].episode_id)

\* a chunk row as a reader sees it
Triple(r) == <<r.chunk_index, r.file_id, r.chunk_size>>
TriplesOf(rs) == {Triple(r) : r \in rs}
RequestTriples(w) == TriplesOf(NewRows(wreq[w].episode_id, wreq[w].chunks, 0))
SeqTriples(s) == {Triple(s[i]) : i \in 1..Len(s)}

ReaderSamples(e) == rpc = "idle" /\ rpc' = "done" /\ repi' = e

\* C2: a reader that lists the chunk rows of an episode while a replace of that
\* episode's non-empty chunk set is in progress sees exactly the old set or
\* exactly the new set, never zero chunks and never a mix.
AtomicReplace ==
    [][\A w \in Writers :
          (/\ Replacing(w) /\ SoleWriter(w) /\ wexisting[w] # {}
           /\ ReaderSamples(wreq[w].episode_id))
          => \/ (SeqTriples(rchunks') = TriplesOf(wexisting[w])
                    /\ Len(rchunks') = Cardinality(wexisting[w]))
             \/ (SeqTriples(rchunks') = RequestTriples(w)
                    /\ Len(rchunks') = Len(wreq[w].chunks))]_vars

\* chunk_index values 0..N-1 without duplicates or gaps
ContiguousFromZero(indexes) ==
    \A i \in 1..Len(indexes) :
        /\ indexes[i] \in 0..(Len(indexes) - 1)
        /\ \A j \in 1..Len(indexes) : i # j => indexes[i] # indexes[j]

RowIndexesOk(rs) ==
    /\ \A r \in rs : r.chunk_index \in 0..(Cardinality(rs) - 1)
    /\ \A r, q \in rs : r # q => r.chunk_index # q.chunk_index

RECURSIVE SumSizes(_)
SumSizes(rs) ==
    IF rs = {} THEN 0
    ELSE LET r == CHOOSE r \in rs : TRUE IN r.chunk_size + SumSizes(rs \ {r})

Quiescent(e) == \A w \in Writers : ~(Active(w) /\ wreq[w].episode_id = e)

\* C7: whenever no finalize of an episode is in progress, the chunk_index values
\* of its rows are exactly 0..N-1 without duplicates or gaps and their chunk_size
\* values sum to the length of the uploaded file.
ChunkRecordInvariant ==
    \A e \in episodes :
        Quiescent(e) => /\ RowIndexesOk(RowsOf(e))
                        /\ SumSizes(RowsOf(e)) = uploaded_len[e]

ValidChunkList(chunks) ==
    /\ chunks # <<>>
    /\ ContiguousFromZero([k \in 1..Len(chunks) |-> chunks[k].chunk_index])

\* C8: finalize_episode_upload rejects a chunk list that is empty or whose
\* chunk_index values are not contiguous from 0, and a rejected request persists
\* none of its chunks and leaves the episode's rows as they were.
FinalizeRejectsInvalid ==
    \A w \in Writers :
        (wpc[w] = "done" /\ wreq[w].episode_id \in episodes
            /\ ~ValidChunkList(wreq[w].chunks))
        => /\ wres[w].status \in 400..499
           /\ SoleWriter(w) => RowsOf(wreq[w].episode_id) = wexisting[w]

----------------------------------------------------------------------------
(* Stream claims *)

TotalSize == SumSeq(schunks)
ChunkStart(k) == SumSeq(SubSeq(schunks, 1, k - 1))
ChunkEnd(k) == ChunkStart(k) + schunks[k] - 1
ValidRange == 0 <= sresp.start /\ sresp.start <= sresp.end /\ sresp.end <= TotalSize - 1
SmallFile == TotalSize <= MaxStreamChunks * MaxStreamChunkSize

\* absolute offsets of the first and last byte of the i-th yielded slice
SliceFirst(i) == ChunkStart(syielded[i].chunk) + syielded[i].lo
SliceLast(i) == ChunkStart(syielded[i].chunk) + syielded[i].hi - 1

YieldedBytes ==
    Concat([i \in 1..Len(syielded) |->
              PySlice(ChunkBytes(syielded[i].chunk, schunks[syielded[i].chunk]),
                      syielded[i].lo, syielded[i].hi)])
OriginalBytes == Concat([k \in 1..Len(schunks) |-> ChunkBytes(k, schunks[k])])

\* C4: for 0 <= start <= end <= T-1 the slices yielded, each the sub-slice
\* [max(0, start - chunk_start) : min(byte_size, end - chunk_start + 1)] of an
\* overlapping chunk, concatenate to exactly bytes [start, end] of the file.
RangeReconstructionExact ==
    (spc = "done" /\ ValidRange) =>
        /\ syielded # <<>>
        /\ SliceFirst(1) = sresp.start
        /\ SliceLast(Len(syielded)) = sresp.end
        /\ \A i \in 1..(Len(syielded) - 1) :
              SliceFirst(i + 1) = SliceLast(i) + 1 /\ SliceFirst(i) <= SliceLast(i)
        /\ SmallFile => YieldedBytes = SubSeq(OriginalBytes, sresp.start + 1, sresp.end + 1)

RangeReconstructionWitness ==
    /\ spc = "done" /\ ValidRange /\ SmallFile
    /\ Len(syielded) = 3
    /\ syielded[1].lo > 0
    /\ syielded[3].hi < schunks[syielded[3].chunk]
    /\ YieldedBytes = SubSeq(OriginalBytes, sresp.start + 1, sresp.end + 1)

\* C5: no chunk is fetched whose interval [chunk_start, chunk_end] does not
\* overlap [start, end]: chunks ending before start are skipped without a
\* fetch, and nothing is fetched once a chunk starts after end.
MinimalFetch ==
    \A i \in 1..Len(sfetched) :
        /\ ChunkEnd(sfetched[i]) >= sresp.start
        /\ ChunkStart(sfetched[i]) <= sresp.end

MinimalFetchWitness ==
    /\ spc = "done" /\ ValidRange
    /\ Len(schunks) = 3 /\ sfetched = <<2>>
    /\ snext = 3

FetchedIndexes == [i \in 1..Len(sfetched) |-> sfetched[i] - 1]
ScenarioRange ==
    /\ spc = "done" /\ schunks = ScenarioChunks
    /\ sheader = [present |-> TRUE,
                  value |-> BytesEq \o Str(<<"1","5","7","2","8","6","4","0">>) \o <<"-">>
                                    \o Str(<<"2","0","9","7","1","5","1","9">>)]
ScenarioHeaders ==
    /\ sresp.status = 206
    /\ sresp.content_range =
          <<"b","y","t","e","s"," ","1","5","7","2","8","6","4","0","-",
            "2","0","9","7","1","5","1","9","/","2","6","2","1","4","4","0","0">>
    /\ sresp.content_length = 5242880

\* C6 as stated: Range bytes=15728640-20971519 against chunks of 10, 10 and
\* 5 MiB fetches exactly chunks 1 and 2 and answers 206 with Content-Range
\* bytes 15728640-20971519/26214400 and Content-Length 5242880.
ScenarioFetchesTwoChunks ==
    ScenarioRange =>
        /\ (FetchedIndexes = <<1, 2>> \/ sfetched = <<1, 2>>)
        /\ ScenarioHeaders

\* C6 amended: the range lies inside the chunk with sequence_index 1 (bytes
\* 10485760..20971519), which is the only chunk fetched; the status and the
\* headers are as stated.
ScenarioFetchesOneChunk ==
    ScenarioRange =>
        /\ FetchedIndexes = <<1>>
        /\ syielded = <<[chunk |-> 2, lo |-> 5 * MiB, hi |-> 10 * MiB]>>
        /\ ScenarioHeaders

ScenarioWitness == ScenarioRange /\ FetchedIndexes = <<1>> /\ sresp.status = 206

\* C9: for a Range header bytes=<start>-<end> with either side optionally
\* empty, start is the given start or 0, end is the given end or total_size-1,
\* the status is 206, Content-Range is "bytes <start>-<end>/<total_size>",
\* Content-Length is end-start+1 and Accept-Ranges is bytes.
WellFormedRangeResponse ==
    (spc \in {"stream", "done"} /\ sheader.present
        /\ sheader.value = RangeHeaderFor(sgiven)) =>
        LET start == IF sgiven.start < 0 THEN 0 ELSE sgiven.start
            end == IF sgiven.end < 0 THEN TotalSize - 1 ELSE sgiven.end
        IN  /\ sresp.start = start
            /\ sresp.end = end
            /\ sresp.status = 206
            /\ sresp.content_range =
                  <<"b", "y", "t", "e", "s", " ">> \o IntToStr(start) \o <<"-">>
                      \o IntToStr(end) \o <<"/">> \o IntToStr(TotalSize)
            /\ sresp.content_length = end - start + 1
            /\ sresp.accept_ranges = "bytes"

WellFormedRangeWitness ==
    /\ spc = "done" /\ sheader.present
    /\ sgiven.start = 2 /\ sgiven.end = -1 /\ TotalSize = 5
    /\ sheader.value = <<"b", "y", "t", "e", "s", "=", "2", "-">>
    /\ sresp.status = 206 /\ sresp.end = 4 /\ sresp.content_length = 3

\* C10: without a Range header the status is 200, start is 0, end is
\* total_size-1, Content-Length is total_size (the sum of the chunk sizes),
\* Accept-Ranges is bytes and there is no Content-Range.
NoRangeResponse ==
    (spc \in {"stream", "done"} /\ ~sheader.present) =>
        /\ sresp.status = 200
        /\ sresp.start = 0
        /\ sresp.end = TotalSize - 1
        /\ sresp.content_length = TotalSize
        /\ sresp.accept_ranges = "bytes"
        /\ sresp.content_range = <<>>

NoRangeWitness ==
    /\ spc = "done" /\ ~sheader.present /\ schunks = ScenarioChunks
    /\ sresp.status = 200 /\ sresp.content_length = 26214400
    /\ sfetched = <<1, 2, 3>>


\* the response fields a client sees
ResponseSeen(r) == <<r.status, r.content_range, r.content_length, r.accept_ranges>>

\* C11: a malformed Range header (such as bytes=garbage) is never rejected: for
\* every total size the response is the one given without a Range header,
\* status 200, no Content-Range, Content-Length = total size, and the whole
\* content is streamed.
MalformedRangeAsAbsent ==
    (spc \in {"stream", "done"} /\ sheader.present /\ sheader.value \in MalformedHeaders) =>
        /\ sresp.status = 200
        /\ sresp.content_range = <<>>
        /\ sresp.content_length = TotalSize
        /\ sresp.accept_ranges = "bytes"
        /\ sresp.start = 0 /\ sresp.end = TotalSize - 1
        /\ spc = "done" =>
              /\ sfetched = [k \in 1..Len(schunks) |-> k]
              /\ YieldedBytes = OriginalBytes

MalformedRangeWitness ==
    /\ spc = "done" /\ sheader.present
    /\ sheader.value = <<"b", "y", "t", "e", "s", "=", "g", "a", "r", "b", "a", "g", "e">>
    /\ schunks = <<3, 2>>
    /\ sresp.status = 200 /\ sresp.content_length = 5
    /\ YieldedBytes = OriginalBytes

\* C12: a Range header bytes=-<end> (empty start) is resolved as a suffix
\* length, to the byte interval [total_size - end, total_size - 1].
SuffixRange ==
    (spc \in {"stream", "done"} /\ sheader.present
        /\ sgiven.start < 0 /\ sgiven.end >= 1 /\ sgiven.end <= TotalSize
        /\ sheader.value = RangeHeaderFor(sgiven)) =>
        /\ sresp.start = TotalSize - sgiven.end
        /\ sresp.end = TotalSize - 1

----------------------------------------------------------------------------
(* Codec claims *)

\* the number of characters of "id1:size1,id2:size2,..."
PlainLength(chunks) ==
    SumSeq([k \in 1..Len(chunks) |-> Len(chunks[k][1]) + 1 + Len(IntToStr(chunks[k][2]))])
        + Len(chunks) - 1

\* C13: with use_compression unspecified, build_chunks_param compresses exactly
\* when there are more than 5 chunks or the plain string has more than 200
\* characters; a plain token contains ':' (3 short ids), a compressed one does
\* not and parses back to the same pairs (10 ids).
ModeAutoSelection ==
    (cpc \in {"built", "parsed"} /\ cmode = "none") =>
        LET compressed == Len(cchunks) > 5 \/ PlainLength(cchunks) > 200
        IN  /\ Contains(ctoken, ":") <=> ~compressed
            /\ ~compressed => Len(ctoken) = PlainLength(cchunks)
            /\ compressed => \A i \in 1..Len(ctoken) : ctoken[i] \notin {":", ",", "="}
            /\ cpc = "parsed" => (cparsed.ok /\ cparsed.val = cchunks)

ModeAutoSelectionWitness ==
    /\ cpc = "parsed" /\ cmode = "none"
    /\ Len(cchunks) = 10
    /\ ~Contains(ctoken, ":")
    /\ cparsed.ok /\ cparsed.val = cchunks

\* the plain string a received token stands for
ReceivedPlain ==
    IF Contains(ctoken, ":") THEN ctoken
    ELSE IF decompress_ok(ctoken) THEN decompress_chunks(ctoken)
    ELSE <<>>
ReceivedSegments == Split(ReceivedPlain, ",")

\* "id:size" with a size of digits
WellFormedSegment(seg) ==
    /\ Len(Split(seg, ":")) = 2
    /\ Split(seg, ":")[2] # <<>>
    /\ \A i \in 1..Len(Split(seg, ":")[2]) : IsDigit(Split(seg, ":")[2][i])

\* C14: parse_chunks_param returns one (id, size) pair for every
\* comma-separated segment of the plain string, in order, or fails naming a
\* malformed segment; no segment, empty ones included, is dropped from the
\* list it returns.
DecodeStrict ==
    cpc = "decoded" =>
        IF cparsed.ok
        THEN /\ Len(cparsed.val) = Len(ReceivedSegments)
             /\ \A k \in 1..Len(cparsed.val) :
                    ReceivedSegments[k] = cparsed.val[k][1] \o <<":">> \o IntToStr(cparsed.val[k][2])
        ELSE \/ ~Contains(ctoken, ":") /\ ~decompress_ok(ctoken)
             \/ \E k \in 1..Len(ReceivedSegments) :
                   /\ ~WellFormedSegment(ReceivedSegments[k])
                   /\ cparsed.err \in {ReceivedSegments[k]} \cup
                          {Split(ReceivedSegments[k], ":")[j] :
                               j \in 1..Len(Split(ReceivedSegments[k], ":"))}

----------------------------------------------------------------------------
(* Upload failure and empty input *)

\* C15: when upload_chunk fails for a chunk, upload_file_in_chunks raises: the
\* failed call is its last call of the backend (no retry, no later chunk), it
\* never returns a chunk list, and the chunk rows readers see are the rows
\* from before the call.
UploadFailureAborts ==
    [][/\ \A i \in 1..Len(puts') :
             puts'[i] = "fail" =>
                 /\ i = Len(puts')
                 /\ upc' = "raised"
                 /\ Len(blobs') = i - 1
                 /\ rows' = InitialRows
       /\ upc = "raised" => upc' = "raised" /\ puts' = puts /\ blobs' = blobs]_vars

\* the second of three chunks fails
UploadFailureWitness ==
    /\ upc = "raised" /\ puts = <<"ok", "fail">>
    /\ Len(ufile) = 25 /\ usize = 10
    /\ Len(blobs) = 1 /\ rows = InitialRows

\* C17: on an empty file upload_file_in_chunks returns normally with an empty
\* chunk list, having made no upload_chunk call: no chunk record comes of it.
EmptyInputNoChunks ==
    (Len(ufile) = 0 /\ upc # "loop") =>
        /\ upc = "returned"
        /\ puts = <<>>
        /\ blobs = <<>>
        /\ chunks_info = <<>>

EmptyInputWitness ==
    /\ Len(ufile) = 0 /\ upc = "returned" /\ usize = CHUNK_SIZE
    /\ puts = <<>> /\ chunks_info = <<>>

----------------------------------------------------------------------------
(* Catalog claims *)

\* C16: a finalize request for an episode id that does not exist is answered
\* 404 and changes no chunk row of any episode.
FinalizeUnknownEpisode ==
    [][\A w \in Writers :
          (wpc[w] = "idle" /\ wpc'[w] # "idle" /\ wreq'[w].episode_id \notin episodes)
          => /\ wpc'[w] = "done"
             /\ wres'[w].status = 404
             /\ rows' = rows
             /\ next_id' = next_id]_vars

\* the episode was deleted, its rows are still stored, and the finalize is refused
FinalizeUnknownWitness ==
    /\ wpc["a"] = "done" /\ wres["a"].status = 404
    /\ wreq["a"].episode_id = 1 /\ 1 \notin episodes
    /\ Len(wreq["a"].chunks) = 2
    /\ rows = InitialRows

\* C18: once delete_episode, or delete_video of the owning video, has
\* completed, no chunk row with that episode's id is left.
ChunksDeletedWithOwner ==
    [][/\ \A e \in episodes : e \notin episodes' => {r \in rows' : r.episode_id = e} = {}
       /\ \A v \in videos : v \notin videos' =>
             \A e \in RequestedEpisodeIds :
                 VideoOf(e) = v => {r \in rows' : r.episode_id = e} = {}]_vars

\* the (file_id, chunk_size) pairs of a set of rows in some ascending
\* chunk_index order
PairsInIndexOrder(rs, pairs) ==
    /\ Len(pairs) = Cardinality(rs)
    /\ \E ord \in [1..Cardinality(rs) -> rs] :
          /\ \A i, j \in 1..Cardinality(rs) : i # j => ord[i] # ord[j]
          /\ \A i, j \in 1..Cardinality(rs) : i < j => ord[i].chunk_index <= ord[j].chunk_index
          /\ \A i \in 1..Cardinality(rs) : pairs[i] = <<ord[i].file_id, ord[i].chunk_size>>

\* the value of the chunks query parameter of a stream url
ChunksToken(url) == SubSeq(url, Len(StreamUrl(<<>>)) + 1, Len(url))

\* C19: for an episode with at least one chunk row get_episode_stream_url
\* answers a stream_url whose chunks token parses to the rows' (file_id,
\* chunk_size) pairs in ascending chunk_index order, total_size their sum and
\* chunk_count their number; for an existing episode without rows it answers 404.
TokenFromRecords ==
    [][(rpc = "idle" /\ rpc' = "done" /\ repi' \in episodes) =>
          IF RowsOf(repi') # {}
          THEN /\ rres'.status = 200
               /\ parse_chunks_param(ChunksToken(rres'.stream_url)).ok
               /\ PairsInIndexOrder(RowsOf(repi'),
                                    parse_chunks_param(ChunksToken(rres'.stream_url)).val)
               /\ rres'.total_size = SumSizes(RowsOf(repi'))
               /\ rres'.chunk_count = Cardinality(RowsOf(repi'))
          ELSE rres'.status = 404]_vars

\* the rows were stored in the order 1, 0 of their chunk_index and are read back
\* in the order 0, 1
TokenFromRecordsWitness ==
    /\ rpc = "done" /\ rres.status = 200
    /\ Len(rchunks) = 2
    /\ rchunks[1].id > rchunks[2].id
    /\ rchunks[1].chunk_index < rchunks[2].chunk_index
    /\ parse_chunks_param(ChunksToken(rres.stream_url)).val =
          <<<<rchunks[1].file_id, rchunks[1].chunk_size>>,
            <<rchunks[2].file_id, rchunks[2].chunk_size>>>>

\* C20: when two finalize calls for one episode have both completed, the
\* episode's rows are exactly the chunk list of one of the two requests,
\* never both lists together.
LastFinalizeWins ==
    \A w, v \in Writers :
        (/\ w # v
         /\ wpc[w] = "done" /\ wpc[v] = "done"
         /\ wres[w].status = 200 /\ wres[v].status = 200
         /\ wreq[w].episode_id = wreq[v].episode_id)
        => \E u \in {w, v} :
              /\ TriplesOf(RowsOf(wreq[u].episode_id)) = RequestTriples(u)
              /\ Cardinality(RowsOf(wreq[u].episode_id)) = Len(wreq[u].chunks)

----------------------------------------------------------------------------
\* the length of the object stored in the backend under a file_id
PayloadLen(file_id) ==
    IF file_id = <<"x", "0">> THEN 5
    ELSE IF file_id = <<"x", "1">> THEN 2
    ELSE BlobLen(DigitVal(file_id[2]))

\* C21: every stored chunk row has a chunk_size of at least 1 that is the
\* exact length of the chunk's payload.
PositiveChunkSize ==
    \A r \in rows : r.chunk_size >= 1 /\ r.chunk_size = PayloadLen(r.file_id)

\* "v.part<k>"
PartName(k) == <<"v", ".", "p", "a", "r", "t">> \o IntToStr(k)

\* C22: within one upload_file_in_chunks call the backend puts happen in
\* ascending chunk_index from 0, each begun only after the previous one
\* succeeded, chunk k is named "<filename>.part<k>", and the records are
\* collected in the same ascending order.
UploadOrdering ==
    [][/\ \A i \in 1..Len(blobs') : blobs'[i].name = PartName(i - 1)
       /\ \A k \in 1..Len(chunks_info') :
             /\ chunks_info'[k].chunk_index = k - 1
             /\ blobs'[chunks_info'[k].file_id].name = PartName(k - 1)
             /\ chunks_info'[k].file_id = k
       /\ puts' # puts =>
             /\ \A i \in 1..Len(puts) : puts[i] = "ok"
             /\ Len(puts') = Len(puts) + 1
             /\ Len(puts) = chunk_index
             /\ upos = chunk_index * usize]_vars

UploadOrderingWitness ==
    /\ upc = "returned" /\ Len(blobs) = 3
    /\ blobs[3].name = <<"v", ".", "p", "a", "r", "t", "2">>
    /\ puts = <<"ok", "ok", "ok">>
    /\ [k \in 1..3 |-> chunks_info[k].chunk_index] = <<0, 1, 2>>

\* C23: within one stream the chunks are fetched, and their slices yielded, in
\* strictly ascending order, one chunk at a time: a chunk is fetched only when
\* the slice of the previously fetched chunk has been yielded, so the bytes of
\* at most one chunk are held.
StreamLazyOrdered ==
    /\ \A i, j \in 1..Len(sfetched) : i < j => sfetched[i] < sfetched[j]
    /\ Len(syielded) <= Len(sfetched) /\ Len(sfetched) <= Len(syielded) + 1
    /\ \A i \in 1..Len(syielded) : syielded[i].chunk = sfetched[i]
    /\ \A i \in 1..(Len(syielded) - 1) :
          ChunkStart(syielded[i].chunk) + syielded[i].lo
              < ChunkStart(syielded[i + 1].chunk) + syielded[i + 1].lo
    /\ Len(sheld) <= 1
    /\ Len(sheld) = Len(sfetched) - Len(syielded)

\* the second of three chunks is held after the slice of the first was yielded
StreamLazyWitness ==
    /\ spc = "stream" /\ Len(schunks) = 3
    /\ sfetched = <<1, 2>> /\ Len(syielded) = 1 /\ sheld = <<2>>

\* the characters A-Z a-z 0-9 _ -
UrlSafeChars ==
    ({B64Alphabet[i] : i \in 1..64} \ {"+", "/"}) \cup {"-", "_"}

\* C24: a token built in compressed mode consists of characters A-Z a-z 0-9 _ -
\* only, without '=' and without ':', and is parsed as compressed; a token
\* built in plain mode from a non-empty list contains ':' and is parsed as
\* plain.
TokenUrlSafe ==
    /\ (cpc \in {"built", "parsed"} /\ cmode = "true") =>
          /\ \A i \in 1..Len(ctoken) : ctoken[i] \in UrlSafeChars
          /\ ~Contains(ctoken, "=") /\ ~Contains(ctoken, ":")
          /\ ctoken # PlainFormat(cchunks)
          /\ cpc = "parsed" => (cparsed.ok /\ cparsed.val = cchunks)
    /\ (cpc \in {"built", "parsed"} /\ cmode = "false") =>
          /\ Contains(ctoken, ":")
          /\ cpc = "parsed" =>
                cparsed = ParseSegments(Split(ctoken, ","), <<>>)

\* a compressed token in which '/' of base64 has become '_'
TokenUrlSafeWitness ==
    /\ cpc = "parsed" /\ cmode = "true"
    /\ Contains(ctoken, "_")
    /\ Len(ctoken) % 4 # 0
    /\ cparsed.ok /\ cparsed.val = cchunks

\* C25: a step of finalize_episode_upload for episode A deletes and inserts
\* only rows whose episode_id is A, the rows of every other episode stay as
\* they are, and no row belongs to two episodes.
FinalizeFrame ==
    [][/\ \A w \in Writers :
             wpc'[w] # wpc[w] =>
                 /\ \A r \in (rows' \ rows) \cup (rows \ rows') :
                        r.episode_id = wreq'[w].episode_id
                 /\ \A e \in RequestedEpisodeIds \ {wreq'[w].episode_id} :
                        {r \in rows' : r.episode_id = e} = RowsOf(e)
       /\ \A r, q \in rows' : r.id = q.id => r = q]_vars

\* episode 2 received two chunks while the rows of episode 1 stayed
FinalizeFrameWitness ==
    /\ wpc["a"] = "done" /\ wres["a"].status = 200
    /\ wreq["a"].episode_id = 2
    /\ Cardinality(RowsOf(2)) = 2
    /\ RowsOf(1) = InitialRows

\* C26: get_user_info makes at most max_retries requests, goes on to another
\* request only after a connect error or a timeout, returns the user info of
\* the first request that succeeds, raises 503 after the third such failure
\* in a row, raises any other error at once, makes no request after it has
\* ended, and always ends.
OAuthRetrySafe ==
    LET n == Len(ooutcomes) IN
    /\ n <= max_retries
    /\ \A i \in 1..(n - 1) : ooutcomes[i] \in {"ConnectError", "TimeoutException"}
    /\ opc # "done" =>
           /\ ores = NoResult
           /\ \A i \in 1..n : ooutcomes[i] \in {"ConnectError", "TimeoutException"}
    /\ opc = "done" =>
           /\ n >= 1
           /\ ooutcomes[n] = "ok" =>
                  ores = [status |-> 200, error |-> "",
                          info |-> Some([oauth_id |-> NatToStr(oserver.id),
                                         username |-> oserver.username,
                                         name |-> oserver.name,
                                         avatar_url |-> None, email |-> None])]
           /\ ooutcomes[n] \in {"ConnectError", "TimeoutException"} =>
                  n = max_retries /\ ores.status = 503 /\ ores.info = None
           /\ ooutcomes[n] \in {"HTTPStatusError", "KeyError"} =>
                  ores.status = 0 /\ ores.error = ooutcomes[n] /\ ores.info = None

OAuthBoundedRetry ==
    /\ []OAuthRetrySafe
    /\ [][opc = "done" => ooutcomes' = ooutcomes /\ ores' = ores]_vars
    /\ <>(opc = "done")

\* two failed connections, then a third one: the 503 case and the late success
OAuthBoundedRetryWitness ==
    /\ opc = "done" /\ Len(ooutcomes) = max_retries
    /\ ooutcomes[1] = "ConnectError" /\ ooutcomes[2] = "TimeoutException"
    /\ ooutcomes[3] = "TimeoutException"
    /\ ores.status = 503 /\ oslept = 3

\* C27: whatever record_share calls one user makes for one video, one after
\* the other or interleaved, the table never holds two share rows of that
\* (user, video); a call that answers 200 leaves exactly one such row and
\* returns the number of share rows of the video; a call that found the
\* user's share row adds nothing, so it does not raise the total; no share
\* row is ever removed.
SharePairs(table, u, v) == {r \in table : r.user_id = u /\ r.video_id = v}

ShareIdempotent ==
    [][/\ \A u \in Users, v \in RequestedVideoIds :
             Cardinality(SharePairs(shares', u, v)) <= 1
       /\ shares \subseteq shares'
       /\ \A c \in Clients :
             /\ (qpc[c] = "count" /\ qpc'[c] = "done") =>
                    /\ qres'[c].status = 200
                    /\ Cardinality(SharePairs(shares', qreq[c].user_id, qreq[c].target)) = 1
                    /\ qres'[c].total = Cardinality({r \in shares' :
                                                       r.video_id = qreq[c].target})
             /\ (qfound[c] # NoRow /\ qpc'[c] # qpc[c] /\ qpc[c] # "done") =>
                    /\ shares' = shares
                    /\ qres'[c].status = 200
                    /\ qres'[c].total = Cardinality({r \in shares :
                                                       r.video_id = qreq[c].target})]_vars

\* both clients of user 1 found no share row, one insert went through, the
\* other was refused, and a later call of the user answered with total 1
ShareIdempotentWitness ==
    /\ Cardinality(SharePairs(shares, 1, 1)) = 1
    /\ qpc["p"] = "done" /\ qres["p"].status = 200 /\ qfound["p"] # NoRow
    /\ qreq["p"] = Call("share", 1, 1, 0) /\ qres["p"].total = 1
    /\ qpc["q"] = "done" /\ qres["q"].status = 500
    /\ qreq["q"] = Call("share", 1, 1, 0)

LikePairs(table, u, v) == {r \in table : r.user_id = u /\ r.video_id = v}

LikesToday(u) ==
    Cardinality({r \in likes : r.user_id = u /\ r.created_at >= today_start})

HistoryOf(u) == {r \in history : r.user_id = u}

WatchHistoryCap ==
    (/\ \A c \in Clients : qpc[c] \in {"idle", "done"}
     /\ \E c \in Clients : qpc[c] = "done" /\ qres[c].status = 200)
        => \A u \in Users :
              /\ Cardinality(HistoryOf(u)) <= 100
              /\ \A r, q \in HistoryOf(u) : r.episode_id = q.episode_id => r = q

\* C30: no user ever has more than 100 comment rows, like rows or favorite
\* rows created within one UTC day, also when requests are interleaved.
RowsOfDay(table, u, d) ==
    {r \in table : r.user_id = u /\ r.created_at \div TicksPerDay = d}

DailyLimitHolds ==
    \A u \in Users, d \in 0..(MaxNow \div TicksPerDay) :
        /\ Cardinality(RowsOfDay(comments, u, d)) <= 100
        /\ Cardinality(RowsOfDay(likes, u, d)) <= 100
        /\ Cardinality(RowsOfDay(favorites, u, d)) <= 100

====
